---- MODULE Spec2Model ----
(***************************************************************************)
(* The QH/QTD scheduler of the DWC OTG host controller driver              *)
(* (drivers/usb/dwc_otg/dwc_otg_hcd_queue.c).                              *)
(*                                                                         *)
(* The five schedule lists of the HCD are sequences of QH ids, head first. *)
(* A QH has one list entry (qh_list_entry), so "list_empty(&qh->           *)
(* qh_list_entry)" is "the QH occurs in none of the five sequences".       *)
(* One endpoint owns at most one QH (ep->hcpriv); the QH of endpoint e has *)
(* id e.  Every function of the file is an operator from the state before  *)
(* the call to the state after it; an action is one call of a function.    *)
(***************************************************************************)
EXTENDS Integers, Sequences, FiniteSets, TLC

----------------------------------------------------------------------------
(* Bounds of the model *)

\* number of endpoints (one QH slot per endpoint)
NumQH == 2
\* number of QTDs that are ever created
MaxQtd == 2
\* largest sched_frame a periodic QH is followed to in Spec
FrameCap == 11
\* number of frames a periodic QH is followed behind each frame of FrameBases
\* in SpecFrame
FrameWindow == 8

\* number of contexts (process, interrupt, tasklet) calling concurrently
NumCtx == 2

\* calls each context makes in SpecLock
MaxCalls == 2

----------------------------------------------------------------------------
(* Program constants *)

NULL == 0
ENOSPC == 28
SCHEDULE_SLOP == 10
DWC_HFNUM_MAX_FRNUM == 16383

\* dwc_otg_cil.h, dwc_otg_regs.h, dwc_otg_hcd.h: the data PIDs, the first phase
\* of a control transfer, and the position "all" of an isochronous split
DWC_OTG_HC_PID_DATA0 == 0
DWC_OTG_HC_PID_DATA1 == 2
DWC_OTG_CONTROL_SETUP == 0
DWC_HCSPLIT_XACTPOS_ALL == 3

\* what a call stopped by the processor's divide-error trap leaves in place of
\* a return value: the call does not return
DivideError == 1

\* the contexts that call into the scheduler
Ctxs == 1 .. NumCtx

QHS == 1 .. NumQH
QTDS == 1 .. MaxQtd

\* uint16_t arithmetic
U16(x) == x % 65536

\* the zeroed QH of an endpoint that has no QH yet
ZeroQH ==
    [ep_type |-> "NONE", ep_is_in |-> 0, maxp |-> 0, usecs |-> 0,
     interval |-> 0, sched_frame |-> 0, start_split_frame |-> 0,
     do_split |-> 0, qtd_list |-> << >>,
     data_toggle |-> 0, channel |-> NULL]

\* the zeroed QTD
ZeroQTD ==
    [urb |-> NULL, data_toggle |-> 0, control_phase |-> 0, complete_split |-> 0,
     isoc_split_pos |-> 0, isoc_split_offset |-> 0]

\* an URB that has not been submitted
NoURB ==
    [pipetype |-> "NONE", pipein |-> FALSE, speed |-> "NONE", tt_hub |-> NULL,
     interval |-> 0, maxp |-> 0, bus_time_us |-> 0, ep |-> NULL, hcpriv |-> NULL]

VARIABLES
    core_params,   \* host_channels, speed, max_transfer_size
    hcd,           \* the schedule lists and the reservation counters
    bus,           \* usb_bus: bandwidth_allocated, bandwidth_int_reqs, bandwidth_isoc_reqs
    qh,            \* qh[e]: the QH of endpoint e
    hcpriv,        \* hcpriv[e]: ep->hcpriv, NULL or the QH id
    nqtd,          \* number of QTDs created so far
    last,          \* the last call: its name, arguments and return value
    lock,          \* hcd->lock: how the build locks, and the context that holds it
    ctx,           \* ctx[t]: the calls context t is in, innermost last
    cpu,           \* what the processor does with an integer division by zero
    urbs,          \* urbs[u]: URB u, with urb->hcpriv
    qtds,          \* qtds[i]: the fields of QTD i
    kfreed         \* the objects given to kfree, in the order of the calls

\* the URBs, the QTDs and the freed objects
mem == <<urbs, qtds, kfreed>>

vars == <<core_params, hcd, bus, qh, hcpriv, nqtd, last, lock, ctx, cpu, mem>>

----------------------------------------------------------------------------
(* include/linux/list.h on sequences *)

SeqRemove(s, x) == SelectSeq(s, LAMBDA y : y # x)

InSeq(s, x) == \E i \in 1 .. Len(s) : s[i] = x

Occurrences(s, x) == Cardinality({i \in 1 .. Len(s) : s[i] = x})

ListNames ==
    <<"non_periodic_sched_inactive", "non_periodic_sched_active",
      "periodic_sched_inactive", "periodic_sched_ready", "periodic_sched_queued">>

Lists == {ListNames[i] : i \in 1 .. Len(ListNames)}

PeriodicLists == {"periodic_sched_inactive", "periodic_sched_ready", "periodic_sched_queued"}

\* how often QH q occurs in the five schedule lists of h
TotalOccurrences(h, q) ==
    Occurrences(h.non_periodic_sched_inactive, q)
    + Occurrences(h.non_periodic_sched_active, q)
    + Occurrences(h.periodic_sched_inactive, q)
    + Occurrences(h.periodic_sched_ready, q)
    + Occurrences(h.periodic_sched_queued, q)

\* QH q is linked in a schedule list of h
Linked(h, q) == TotalOccurrences(h, q) > 0

\* (mutant) a test that looks at the non-periodic lists only
list_empty_entry_NonPeriodicOnly(h, q) ==
    ~InSeq(h.non_periodic_sched_inactive, q) /\ ~InSeq(h.non_periodic_sched_active, q)

\* list_empty(&qh->qh_list_entry)
list_empty_entry(h, q) == \A l \in Lists : ~InSeq(h[l], q)

\* (mutant) list_add: the entry is put at the head
list_add(h, q, l) == [h EXCEPT ![l] = <<q>> \o @]

\* list_add_tail(&qh->qh_list_entry, &hcd-><l>)
list_add_tail(h, q, l) == [h EXCEPT ![l] = Append(@, q)]

\* list_del_init(&qh->qh_list_entry): unlinks the entry from the list it is in
list_del_init(h, q) ==
    [l \in DOMAIN h |-> IF l \in Lists THEN SeqRemove(h[l], q) ELSE h[l]]

\* list_move(&qh->qh_list_entry, &hcd-><l>): list_del, then list_add at the head
list_move(h, q, l) ==
    LET d == list_del_init(h, q)
    IN  [d EXCEPT ![l] = <<q>> \o @]

\* entry->next of a linked QH entry: the next QH, or NULL for the list head
list_next(h, q) ==
    IF \E l \in Lists : \E i \in 1 .. Len(h[l]) - 1 : h[l][i] = q
    THEN LET l == CHOOSE l \in Lists : \E i \in 1 .. Len(h[l]) - 1 : h[l][i] = q
             i == CHOOSE i \in 1 .. Len(h[l]) - 1 : h[l][i] = q
         IN  h[l][i + 1]
    ELSE NULL

----------------------------------------------------------------------------
(* dwc_otg_hcd.h helpers *)

dwc_qh_is_non_per(q) == q.ep_type \in {"CONTROL", "BULK"}

dwc_hb_mult(wMaxPacketSize) == 1 + ((wMaxPacketSize \div 2048) % 4)

dwc_max_packet(wMaxPacketSize) == wMaxPacketSize % 2048

dwc_frame_num_inc(frame, inc) == (frame + inc) % (DWC_HFNUM_MAX_FRNUM + 1)

dwc_frame_num_le(frame1, frame2) ==
    ((frame2 - frame1 + 65536) % (DWC_HFNUM_MAX_FRNUM + 1)) <= (DWC_HFNUM_MAX_FRNUM \div 2)

\* x |= 0x7
Or7(x) == x - (x % 8) + 7

----------------------------------------------------------------------------
(* dwc_otg_hcd_queue.c *)

\* A QH is periodic when it is for an interrupt or isochronous endpoint.
IsPeriodic(q) == q.ep_type \in {"INT", "ISOC"}

\* (mutant) qh_init that also splits behind the root hub (hub address 1)
dwc_otg_hcd_qh_init_SplitBehindRootHub(urb, frame_number, prtspd) ==
    LET q0 == [ZeroQH EXCEPT
                 !.ep_type = urb.pipetype,
                 !.ep_is_in = IF urb.pipein THEN 1 ELSE 0,
                 !.data_toggle = DWC_OTG_HC_PID_DATA0,
                 !.maxp = urb.maxp,
                 !.qtd_list = << >>,
                 !.channel = NULL,
                 !.do_split = IF urb.speed \in {"LOW", "FULL"} /\ urb.tt_hub # NULL
                              THEN 1 ELSE 0]
        q1 == [q0 EXCEPT
                 !.usecs = U16(urb.bus_time_us),
                 !.sched_frame = dwc_frame_num_inc(frame_number, SCHEDULE_SLOP),
                 !.interval = U16(urb.interval)]
        q2 == [q1 EXCEPT
                 !.interval = U16(q1.interval * 8),
                 !.sched_frame = Or7(q1.sched_frame),
                 !.start_split_frame = Or7(q1.sched_frame)]
    IN  IF IsPeriodic(q0)
        THEN IF prtspd = "HIGH" /\ urb.speed \in {"LOW", "FULL"} THEN q2 ELSE q1
        ELSE q0

\* (mutant) qh_init that starts a periodic QH in the current frame, without
\* SCHEDULE_SLOP
dwc_otg_hcd_qh_init_NoSlop(urb, frame_number, prtspd) ==
    LET q0 == [ZeroQH EXCEPT
                 !.ep_type = urb.pipetype,
                 !.ep_is_in = IF urb.pipein THEN 1 ELSE 0,
                 !.data_toggle = DWC_OTG_HC_PID_DATA0,
                 !.maxp = urb.maxp,
                 !.qtd_list = << >>,
                 !.channel = NULL,
                 !.do_split = IF urb.speed \in {"LOW", "FULL"} /\ urb.tt_hub # NULL
                                 /\ urb.tt_hub # 1
                              THEN 1 ELSE 0]
        q1 == [q0 EXCEPT
                 !.usecs = U16(urb.bus_time_us),
                 !.sched_frame = frame_number,
                 !.interval = U16(urb.interval)]
        q2 == [q1 EXCEPT
                 !.interval = U16(q1.interval * 8),
                 !.sched_frame = Or7(q1.sched_frame),
                 !.start_split_frame = Or7(q1.sched_frame)]
    IN  IF IsPeriodic(q0)
        THEN IF prtspd = "HIGH" /\ urb.speed \in {"LOW", "FULL"} THEN q2 ELSE q1
        ELSE q0

\* (mutant) qh_init that adjusts interval and sched_frame when do_split is set
dwc_otg_hcd_qh_init_AdjustOnSplit(urb, frame_number, prtspd) ==
    LET q0 == [ZeroQH EXCEPT
                 !.ep_type = urb.pipetype,
                 !.ep_is_in = IF urb.pipein THEN 1 ELSE 0,
                 !.data_toggle = DWC_OTG_HC_PID_DATA0,
                 !.maxp = urb.maxp,
                 !.qtd_list = << >>,
                 !.channel = NULL,
                 !.do_split = IF urb.speed \in {"LOW", "FULL"} /\ urb.tt_hub # NULL
                                 /\ urb.tt_hub # 1
                              THEN 1 ELSE 0]
        q1 == [q0 EXCEPT
                 !.usecs = U16(urb.bus_time_us),
                 !.sched_frame = dwc_frame_num_inc(frame_number, SCHEDULE_SLOP),
                 !.interval = U16(urb.interval)]
        q2 == [q1 EXCEPT
                 !.interval = U16(q1.interval * 8),
                 !.sched_frame = Or7(q1.sched_frame),
                 !.start_split_frame = Or7(q1.sched_frame)]
    IN  IF IsPeriodic(q0)
        THEN IF q0.do_split # 0 THEN q2 ELSE q1
        ELSE q0

\* dwc_otg_hcd_qh_init: the QH made for urb; frame_number is hcd->frame_number,
\* prtspd the port speed read from hprt0, urb.bus_time_us the microseconds
\* NS_TO_US(usb_calc_bus_time(...)) gives for the endpoint.
dwc_otg_hcd_qh_init(urb, frame_number, prtspd) ==
    LET q0 == [ZeroQH EXCEPT
                 !.ep_type = urb.pipetype,
                 !.ep_is_in = IF urb.pipein THEN 1 ELSE 0,
                 !.data_toggle = DWC_OTG_HC_PID_DATA0,
                 !.maxp = urb.maxp,
                 !.qtd_list = << >>,
                 !.channel = NULL,
                 !.do_split = IF urb.speed \in {"LOW", "FULL"} /\ urb.tt_hub # NULL
                                 /\ urb.tt_hub # 1
                              THEN 1 ELSE 0]
        q1 == [q0 EXCEPT
                 !.usecs = U16(urb.bus_time_us),
                 !.sched_frame = dwc_frame_num_inc(frame_number, SCHEDULE_SLOP),
                 !.interval = U16(urb.interval)]
        q2 == [q1 EXCEPT
                 !.interval = U16(q1.interval * 8),
                 !.sched_frame = Or7(q1.sched_frame),
                 !.start_split_frame = Or7(q1.sched_frame)]
    IN  IF IsPeriodic(q0)
        THEN IF prtspd = "HIGH" /\ urb.speed \in {"LOW", "FULL"} THEN q2 ELSE q1
        ELSE q0

\* periodic_channel_available: 0, or -ENOSPC
periodic_channel_available(h) ==
    LET num_channels == core_params.host_channels
    IN  IF (h.periodic_channels + h.non_periodic_channels < num_channels)
           /\ (h.periodic_channels < num_channels - 1)
        THEN 0
        ELSE -ENOSPC

\* check_periodic_bandwidth: max_claimed_usecs is a uint16_t
check_periodic_bandwidth(h, q) ==
    LET max_claimed_usecs ==
            IF core_params.speed = "HIGH"
            THEN U16(100 - q.usecs + 65536)
            ELSE U16(900 - q.usecs + 65536)
    IN  IF h.periodic_usecs > max_claimed_usecs THEN -ENOSPC ELSE 0

\* check_max_xfer_size
check_max_xfer_size(q) ==
    LET max_xfer_size == dwc_max_packet(q.maxp) * dwc_hb_mult(q.maxp)
        max_channel_xfer_size == core_params.max_transfer_size
    IN  IF max_xfer_size > max_channel_xfer_size THEN -ENOSPC ELSE 0

\* What a call leaves: the HCD, the bus counters, the QHs and the return value.
Result(h, b, Q, st) == [hcd |-> h, bus |-> b, qh |-> Q, status |-> st]

\* a / b of two unsigned operands as the processor computes it: a division by
\* zero is undefined, it leaves the quotient cpu.quotient unless the
\* processor traps
Quotient(a, b) == IF b = 0 THEN cpu.quotient ELSE a \div b

\* the division by b stops the call with the divide-error trap
Traps(b) == b = 0 /\ cpu.trap

\* (mutant) the channel is reserved before the bandwidth is checked
schedule_periodic_ReserveFirst(h, b, Q, q) ==
    IF periodic_channel_available(h) # 0
    THEN Result(h, b, Q, periodic_channel_available(h))
    ELSE LET h0 == [h EXCEPT !.periodic_channels = @ + 1]
         IN  IF check_periodic_bandwidth(h, Q[q]) # 0
             THEN Result(h0, b, Q, check_periodic_bandwidth(h, Q[q]))
             ELSE IF check_max_xfer_size(Q[q]) # 0
             THEN Result(h0, b, Q, check_max_xfer_size(Q[q]))
             ELSE Result([list_add_tail(h0, q, "periodic_sched_inactive")
                            EXCEPT !.periodic_usecs = U16(@ + Q[q].usecs)],
                         b, Q, 0)

\* (mutant) schedule_periodic that puts the QH into periodic_sched_ready
schedule_periodic_StartReady(h, b, Q, q) ==
    IF periodic_channel_available(h) # 0
    THEN Result(h, b, Q, periodic_channel_available(h))
    ELSE IF check_periodic_bandwidth(h, Q[q]) # 0
    THEN Result(h, b, Q, check_periodic_bandwidth(h, Q[q]))
    ELSE IF check_max_xfer_size(Q[q]) # 0
    THEN Result(h, b, Q, check_max_xfer_size(Q[q]))
    ELSE LET h1 == list_add_tail(h, q, "periodic_sched_ready")
             h2 == [h1 EXCEPT !.periodic_channels = @ + 1,
                              !.periodic_usecs = U16(@ + Q[q].usecs)]
             b1 == [b EXCEPT !.bandwidth_allocated = @ + Quotient(Q[q].usecs, Q[q].interval)]
             b2 == IF Q[q].ep_type = "INT"
                   THEN [b1 EXCEPT !.bandwidth_int_reqs = @ + 1]
                   ELSE [b1 EXCEPT !.bandwidth_isoc_reqs = @ + 1]
         IN  IF Traps(Q[q].interval)
             THEN Result(h2, b, Q, DivideError)
             ELSE Result(h2, b2, Q, 0)

\* schedule_periodic(hcd, qh)
schedule_periodic(h, b, Q, q) ==
    IF periodic_channel_available(h) # 0
    THEN Result(h, b, Q, periodic_channel_available(h))
    ELSE IF check_periodic_bandwidth(h, Q[q]) # 0
    THEN Result(h, b, Q, check_periodic_bandwidth(h, Q[q]))
    ELSE IF check_max_xfer_size(Q[q]) # 0
    THEN Result(h, b, Q, check_max_xfer_size(Q[q]))
    ELSE LET h1 == list_add_tail(h, q, "periodic_sched_inactive")
             h2 == [h1 EXCEPT !.periodic_channels = @ + 1,
                              !.periodic_usecs = U16(@ + Q[q].usecs)]
             b1 == [b EXCEPT !.bandwidth_allocated = @ + Quotient(Q[q].usecs, Q[q].interval)]
             b2 == IF Q[q].ep_type = "INT"
                   THEN [b1 EXCEPT !.bandwidth_int_reqs = @ + 1]
                   ELSE [b1 EXCEPT !.bandwidth_isoc_reqs = @ + 1]
         IN  IF Traps(Q[q].interval)
             THEN Result(h2, b, Q, DivideError)
             ELSE Result(h2, b2, Q, 0)

\* (mutant) qh_add without the test for a QH that is already in a schedule
dwc_otg_hcd_qh_add_NoListCheck(h, b, Q, q) ==
    IF dwc_qh_is_non_per(Q[q])
    THEN Result(list_add_tail(h, q, "non_periodic_sched_inactive"), b, Q, 0)
    ELSE schedule_periodic(h, b, Q, q)

\* (mutant) qh_add that puts every QH into the non-periodic schedule
dwc_otg_hcd_qh_add_AllNonPeriodic(h, b, Q, q) ==
    IF ~list_empty_entry(h, q)
    THEN Result(h, b, Q, 0)
    ELSE Result(list_add_tail(h, q, "non_periodic_sched_inactive"), b, Q, 0)

\* dwc_otg_hcd_qh_add(hcd, qh)
dwc_otg_hcd_qh_add(h, b, Q, q) ==
    IF ~list_empty_entry(h, q)
    THEN Result(h, b, Q, 0)
    ELSE IF dwc_qh_is_non_per(Q[q])
    THEN Result(list_add_tail(h, q, "non_periodic_sched_inactive"), b, Q, 0)
    ELSE schedule_periodic(h, b, Q, q)

\* (mutant) deschedule_periodic that leaves the request counters of the bus
deschedule_periodic_KeepReqs(h, b, Q, q) ==
    LET h1 == list_del_init(h, q)
        h2 == [h1 EXCEPT !.periodic_channels = @ - 1,
                         !.periodic_usecs = U16(@ - Q[q].usecs + 65536)]
        b1 == [b EXCEPT !.bandwidth_allocated = @ - Quotient(Q[q].usecs, Q[q].interval)]
    IN  IF Traps(Q[q].interval)
        THEN Result(h2, b, Q, DivideError)
        ELSE Result(h2, b1, Q, 0)

\* deschedule_periodic(hcd, qh)
deschedule_periodic(h, b, Q, q) ==
    LET h1 == list_del_init(h, q)
        h2 == [h1 EXCEPT !.periodic_channels = @ - 1,
                         !.periodic_usecs = U16(@ - Q[q].usecs + 65536)]
        b1 == [b EXCEPT !.bandwidth_allocated = @ - Quotient(Q[q].usecs, Q[q].interval)]
        b2 == IF Q[q].ep_type = "INT"
              THEN [b1 EXCEPT !.bandwidth_int_reqs = @ - 1]
              ELSE [b1 EXCEPT !.bandwidth_isoc_reqs = @ - 1]
    IN  IF Traps(Q[q].interval)
        THEN Result(h2, b, Q, DivideError)
        ELSE Result(h2, b2, Q, 0)

\* (mutant) qh_remove without the test for a QH that is in no schedule
dwc_otg_hcd_qh_remove_NoListCheck(h, b, Q, q) ==
    IF dwc_qh_is_non_per(Q[q])
    THEN LET h1 == IF h.non_periodic_qh_ptr = q
                   THEN [h EXCEPT !.non_periodic_qh_ptr = list_next(h, q)]
                   ELSE h
         IN  Result(list_del_init(h1, q), b, Q, 0)
    ELSE deschedule_periodic(h, b, Q, q)

\* (mutant) qh_remove that leaves hcd->non_periodic_qh_ptr as it is
dwc_otg_hcd_qh_remove_NoCursorAdvance(h, b, Q, q) ==
    IF list_empty_entry(h, q)
    THEN Result(h, b, Q, 0)
    ELSE IF dwc_qh_is_non_per(Q[q])
    THEN Result(list_del_init(h, q), b, Q, 0)
    ELSE deschedule_periodic(h, b, Q, q)

\* (mutant) qh_remove that puts the data toggle of the QH back to DATA0
dwc_otg_hcd_qh_remove_ResetToggle(h, b, Q, q) ==
    LET Q0 == [Q EXCEPT ![q].data_toggle = DWC_OTG_HC_PID_DATA0]
    IN  IF list_empty_entry(h, q)
        THEN Result(h, b, Q, 0)
        ELSE IF dwc_qh_is_non_per(Q[q])
        THEN LET h1 == IF h.non_periodic_qh_ptr = q
                       THEN [h EXCEPT !.non_periodic_qh_ptr = list_next(h, q)]
                       ELSE h
             IN  Result(list_del_init(h1, q), b, Q0, 0)
        ELSE deschedule_periodic(h, b, Q0, q)

\* dwc_otg_hcd_qh_remove(hcd, qh)
dwc_otg_hcd_qh_remove(h, b, Q, q) ==
    IF list_empty_entry(h, q)
    THEN Result(h, b, Q, 0)
    ELSE IF dwc_qh_is_non_per(Q[q])
    THEN LET h1 == IF h.non_periodic_qh_ptr = q
                   THEN [h EXCEPT !.non_periodic_qh_ptr = list_next(h, q)]
                   ELSE h
         IN  Result(list_del_init(h1, q), b, Q, 0)
    ELSE deschedule_periodic(h, b, Q, q)

\* (mutant) the next sched_frame with the extra frame of a continuing split
\* also for an isochronous OUT endpoint
NextSchedFrame_IsocOutToo(q, sched_next_periodic_split, frame_number) ==
    IF q.do_split # 0
    THEN IF sched_next_periodic_split # 0
         THEN IF dwc_frame_num_le(frame_number, dwc_frame_num_inc(q.start_split_frame, 1))
              THEN [q EXCEPT !.sched_frame = dwc_frame_num_inc(frame_number, 1)]
              ELSE [q EXCEPT !.sched_frame = frame_number]
         ELSE LET f == dwc_frame_num_inc(q.start_split_frame, q.interval)
                  g == IF dwc_frame_num_le(f, frame_number) THEN frame_number ELSE f
              IN  [q EXCEPT !.sched_frame = Or7(g), !.start_split_frame = Or7(g)]
    ELSE LET f == dwc_frame_num_inc(q.sched_frame, q.interval)
         IN  [q EXCEPT !.sched_frame =
                         IF dwc_frame_num_le(f, frame_number) THEN frame_number ELSE f]

\* (mutant) the next sched_frame of a fresh split without forcing the low
\* three bits
NextSchedFrame_NoAlign(q, sched_next_periodic_split, frame_number) ==
    IF q.do_split # 0
    THEN IF sched_next_periodic_split # 0
         THEN IF dwc_frame_num_le(frame_number, dwc_frame_num_inc(q.start_split_frame, 1))
                 /\ (q.ep_type # "ISOC" \/ q.ep_is_in # 0)
              THEN [q EXCEPT !.sched_frame = dwc_frame_num_inc(frame_number, 1)]
              ELSE [q EXCEPT !.sched_frame = frame_number]
         ELSE LET f == dwc_frame_num_inc(q.start_split_frame, q.interval)
                  g == IF dwc_frame_num_le(f, frame_number) THEN frame_number ELSE f
              IN  [q EXCEPT !.sched_frame = g, !.start_split_frame = g]
    ELSE LET f == dwc_frame_num_inc(q.sched_frame, q.interval)
         IN  [q EXCEPT !.sched_frame =
                         IF dwc_frame_num_le(f, frame_number) THEN frame_number ELSE f]

\* (mutant) the next sched_frame of a non-split QH without the test against
\* the current frame
NextSchedFrame_NoClamp(q, sched_next_periodic_split, frame_number) ==
    IF q.do_split # 0
    THEN IF sched_next_periodic_split # 0
         THEN IF dwc_frame_num_le(frame_number, dwc_frame_num_inc(q.start_split_frame, 1))
                 /\ (q.ep_type # "ISOC" \/ q.ep_is_in # 0)
              THEN [q EXCEPT !.sched_frame = dwc_frame_num_inc(frame_number, 1)]
              ELSE [q EXCEPT !.sched_frame = frame_number]
         ELSE LET f == dwc_frame_num_inc(q.start_split_frame, q.interval)
                  g == IF dwc_frame_num_le(f, frame_number) THEN frame_number ELSE f
              IN  [q EXCEPT !.sched_frame = Or7(g), !.start_split_frame = Or7(g)]
    ELSE [q EXCEPT !.sched_frame = dwc_frame_num_inc(q.sched_frame, q.interval)]

\* (mutant) the next sched_frame of a non-split QH counted from the current
\* frame instead of the old sched_frame
NextSchedFrame_FromCurrent(q, sched_next_periodic_split, frame_number) ==
    IF q.do_split # 0
    THEN IF sched_next_periodic_split # 0
         THEN IF dwc_frame_num_le(frame_number, dwc_frame_num_inc(q.start_split_frame, 1))
                 /\ (q.ep_type # "ISOC" \/ q.ep_is_in # 0)
              THEN [q EXCEPT !.sched_frame = dwc_frame_num_inc(frame_number, 1)]
              ELSE [q EXCEPT !.sched_frame = frame_number]
         ELSE LET f == dwc_frame_num_inc(q.start_split_frame, q.interval)
                  g == IF dwc_frame_num_le(f, frame_number) THEN frame_number ELSE f
              IN  [q EXCEPT !.sched_frame = Or7(g), !.start_split_frame = Or7(g)]
    ELSE [q EXCEPT !.sched_frame = dwc_frame_num_inc(frame_number, q.interval)]

\* The sched_frame and start_split_frame dwc_otg_hcd_qh_deactivate computes for
\* a periodic QH at frame_number.
NextSchedFrame(q, sched_next_periodic_split, frame_number) ==
    IF q.do_split # 0
    THEN IF sched_next_periodic_split # 0
         THEN IF dwc_frame_num_le(frame_number, dwc_frame_num_inc(q.start_split_frame, 1))
                 /\ (q.ep_type # "ISOC" \/ q.ep_is_in # 0)
              THEN [q EXCEPT !.sched_frame = dwc_frame_num_inc(frame_number, 1)]
              ELSE [q EXCEPT !.sched_frame = frame_number]
         ELSE LET f == dwc_frame_num_inc(q.start_split_frame, q.interval)
                  g == IF dwc_frame_num_le(f, frame_number) THEN frame_number ELSE f
              IN  [q EXCEPT !.sched_frame = Or7(g), !.start_split_frame = Or7(g)]
    ELSE LET f == dwc_frame_num_inc(q.sched_frame, q.interval)
         IN  [q EXCEPT !.sched_frame =
                         IF dwc_frame_num_le(f, frame_number) THEN frame_number ELSE f]

\* (mutant) qh_deactivate that keeps a QH without QTDs in its schedule
dwc_otg_hcd_qh_deactivate_KeepDrained(h, b, Q, q, sched_next_periodic_split, frame_number) ==
    IF dwc_qh_is_non_per(Q[q])
    THEN LET r == dwc_otg_hcd_qh_remove(h, b, Q, q)
         IN  dwc_otg_hcd_qh_add(r.hcd, r.bus, r.qh, q)
    ELSE LET Q1 == [Q EXCEPT ![q] = NextSchedFrame(Q[q], sched_next_periodic_split,
                                                   frame_number)]
         IN  IF Q1[q].sched_frame = frame_number
             THEN Result(list_move(h, q, "periodic_sched_ready"), b, Q1, 0)
             ELSE Result(list_move(h, q, "periodic_sched_inactive"), b, Q1, 0)

\* (mutant) qh_deactivate with the two destinations of a periodic QH exchanged
dwc_otg_hcd_qh_deactivate_SwappedLists(h, b, Q, q, sched_next_periodic_split, frame_number) ==
    IF dwc_qh_is_non_per(Q[q])
    THEN LET r == dwc_otg_hcd_qh_remove(h, b, Q, q)
         IN  IF Q[q].qtd_list # << >>
             THEN dwc_otg_hcd_qh_add(r.hcd, r.bus, r.qh, q)
             ELSE r
    ELSE LET Q1 == [Q EXCEPT ![q] = NextSchedFrame(Q[q], sched_next_periodic_split,
                                                   frame_number)]
         IN  IF Q1[q].qtd_list = << >>
             THEN dwc_otg_hcd_qh_remove(h, b, Q1, q)
             ELSE IF Q1[q].sched_frame = frame_number
             THEN Result(list_move(h, q, "periodic_sched_inactive"), b, Q1, 0)
             ELSE Result(list_move(h, q, "periodic_sched_ready"), b, Q1, 0)

\* (mutant) qh_deactivate that moves a non-periodic QH to the head of the
\* inactive schedule
dwc_otg_hcd_qh_deactivate_NonPerMoveHead(h, b, Q, q, sched_next_periodic_split, frame_number) ==
    IF dwc_qh_is_non_per(Q[q])
    THEN IF Q[q].qtd_list # << >>
         THEN Result(list_move(h, q, "non_periodic_sched_inactive"), b, Q, 0)
         ELSE dwc_otg_hcd_qh_remove(h, b, Q, q)
    ELSE LET Q1 == [Q EXCEPT ![q] = NextSchedFrame(Q[q], sched_next_periodic_split,
                                                   frame_number)]
         IN  IF Q1[q].qtd_list = << >>
             THEN dwc_otg_hcd_qh_remove(h, b, Q1, q)
             ELSE IF Q1[q].sched_frame = frame_number
             THEN Result(list_move(h, q, "periodic_sched_ready"), b, Q1, 0)
             ELSE Result(list_move(h, q, "periodic_sched_inactive"), b, Q1, 0)

\* dwc_otg_hcd_qh_deactivate(hcd, qh, sched_next_periodic_split);
\* frame_number is what dwc_otg_hcd_get_frame_number returns.
dwc_otg_hcd_qh_deactivate(h, b, Q, q, sched_next_periodic_split, frame_number) ==
    IF dwc_qh_is_non_per(Q[q])
    THEN LET r == dwc_otg_hcd_qh_remove(h, b, Q, q)
         IN  IF Q[q].qtd_list # << >>
             THEN dwc_otg_hcd_qh_add(r.hcd, r.bus, r.qh, q)
             ELSE r
    ELSE LET Q1 == [Q EXCEPT ![q] = NextSchedFrame(Q[q], sched_next_periodic_split,
                                                   frame_number)]
         IN  IF Q1[q].qtd_list = << >>
             THEN dwc_otg_hcd_qh_remove(h, b, Q1, q)
             ELSE IF Q1[q].sched_frame = frame_number
             THEN Result(list_move(h, q, "periodic_sched_ready"), b, Q1, 0)
             ELSE Result(list_move(h, q, "periodic_sched_inactive"), b, Q1, 0)

\* (mutant) qtd_add that forgets a QH it has made when qh_add fails for it
dwc_otg_hcd_qtd_add_DropFailedQH(h, b, Q, priv, ep, qtd, urb, frame_number, prtspd, alloc_ok) ==
    IF priv = NULL /\ ~alloc_ok
    THEN [hcd |-> h, bus |-> b, qh |-> Q, status |-> 0, hcpriv |-> NULL]
    ELSE LET Q1 == IF priv = NULL
                   THEN [Q EXCEPT ![ep] = dwc_otg_hcd_qh_init(urb, frame_number, prtspd)]
                   ELSE Q
             q == IF priv = NULL THEN ep ELSE priv
             r == dwc_otg_hcd_qh_add(h, b, Q1, q)
             Q2 == IF r.status = 0
                   THEN [r.qh EXCEPT ![q].qtd_list = Append(@, qtd)]
                   ELSE r.qh
         IN  [hcd |-> r.hcd, bus |-> r.bus, qh |-> Q2, status |-> r.status,
              hcpriv |-> IF priv = NULL /\ r.status # 0 THEN NULL ELSE q]

\* (mutant) qtd_add that links the QTD whatever qh_add returns
dwc_otg_hcd_qtd_add_AlwaysLink(h, b, Q, priv, ep, qtd, urb, frame_number, prtspd, alloc_ok) ==
    IF priv = NULL /\ ~alloc_ok
    THEN [hcd |-> h, bus |-> b, qh |-> Q, status |-> 0, hcpriv |-> NULL]
    ELSE LET Q1 == IF priv = NULL
                   THEN [Q EXCEPT ![ep] = dwc_otg_hcd_qh_init(urb, frame_number, prtspd)]
                   ELSE Q
             q == IF priv = NULL THEN ep ELSE priv
             r == dwc_otg_hcd_qh_add(h, b, Q1, q)
         IN  [hcd |-> r.hcd, bus |-> r.bus,
              qh |-> [r.qh EXCEPT ![q].qtd_list = Append(@, qtd)],
              status |-> r.status, hcpriv |-> q]

\* (mutant) qtd_add that links the QTD at the head of the QH's qtd_list
dwc_otg_hcd_qtd_add_LinkAtHead(h, b, Q, priv, ep, qtd, urb, frame_number, prtspd, alloc_ok) ==
    IF priv = NULL /\ ~alloc_ok
    THEN [hcd |-> h, bus |-> b, qh |-> Q, status |-> 0, hcpriv |-> NULL]
    ELSE LET Q1 == IF priv = NULL
                   THEN [Q EXCEPT ![ep] = dwc_otg_hcd_qh_init(urb, frame_number, prtspd)]
                   ELSE Q
             q == IF priv = NULL THEN ep ELSE priv
             r == dwc_otg_hcd_qh_add(h, b, Q1, q)
             Q2 == IF r.status = 0
                   THEN [r.qh EXCEPT ![q].qtd_list = <<qtd>> \o @]
                   ELSE r.qh
         IN  [hcd |-> r.hcd, bus |-> r.bus, qh |-> Q2, status |-> r.status, hcpriv |-> q]

\* dwc_otg_hcd_qtd_add(qtd, hcd) for a QTD whose URB is for endpoint ep.
\* alloc_ok: whether dwc_otg_hcd_qh_alloc succeeds when it is called.
\* The result also holds ep->hcpriv after the call.
dwc_otg_hcd_qtd_add(h, b, Q, priv, ep, qtd, urb, frame_number, prtspd, alloc_ok) ==
    IF priv = NULL /\ ~alloc_ok
    THEN [hcd |-> h, bus |-> b, qh |-> Q, status |-> 0, hcpriv |-> NULL]
    ELSE LET Q1 == IF priv = NULL
                   THEN [Q EXCEPT ![ep] = dwc_otg_hcd_qh_init(urb, frame_number, prtspd)]
                   ELSE Q
             q == IF priv = NULL THEN ep ELSE priv
             r == dwc_otg_hcd_qh_add(h, b, Q1, q)
             Q2 == IF r.status = 0
                   THEN [r.qh EXCEPT ![q].qtd_list = Append(@, qtd)]
                   ELSE r.qh
         IN  [hcd |-> r.hcd, bus |-> r.bus, qh |-> Q2, status |-> r.status, hcpriv |-> q]

RECURSIVE qh_free_loop(_, _)
\* the loop of dwc_otg_hcd_qh_free: while the qtd_list is not empty its first
\* entry is unlinked and freed; the result is the QTDs in the order freed
qh_free_loop(list, freed) ==
    IF list = << >> THEN freed ELSE qh_free_loop(Tail(list), Append(freed, Head(list)))

\* dwc_otg_hcd_qh_free(hcd, qh): the QHs afterwards and the QTDs freed, in order
dwc_otg_hcd_qh_free(Q, q) ==
    [qh |-> [Q EXCEPT ![q].qtd_list = << >>],
     freed |-> qh_free_loop(Q[q].qtd_list, << >>)]

\* (mutant) qtd_init that does not seed the QTD of a control transfer
dwc_otg_hcd_qtd_init_NoControlSeed(T, U, i, u) ==
    LET t0 == [ZeroQTD EXCEPT !.urb = u]
        t2 == [t0 EXCEPT !.complete_split = 0,
                         !.isoc_split_pos = DWC_HCSPLIT_XACTPOS_ALL,
                         !.isoc_split_offset = 0]
    IN  [qtds |-> [T EXCEPT ![i] = t2], urbs |-> [U EXCEPT ![u].hcpriv = i]]

\* dwc_otg_hcd_qtd_init(qtd, urb) for QTD i and URB u: the QTDs and the URBs
\* afterwards
dwc_otg_hcd_qtd_init(T, U, i, u) ==
    LET t0 == [ZeroQTD EXCEPT !.urb = u]
        t1 == IF U[u].pipetype = "CONTROL"
              THEN [t0 EXCEPT !.data_toggle = DWC_OTG_HC_PID_DATA1,
                              !.control_phase = DWC_OTG_CONTROL_SETUP]
              ELSE t0
        t2 == [t1 EXCEPT !.complete_split = 0,
                         !.isoc_split_pos = DWC_HCSPLIT_XACTPOS_ALL,
                         !.isoc_split_offset = 0]
    IN  [qtds |-> [T EXCEPT ![i] = t2], urbs |-> [U EXCEPT ![u].hcpriv = i]]

\* dwc_otg_hcd_qtd_create(urb, mem_flags) for URB u; i is the QTD that
\* dwc_otg_hcd_qtd_alloc gives when alloc_ok. The result also holds the
\* pointer returned.
dwc_otg_hcd_qtd_create(T, U, i, u, alloc_ok) ==
    IF ~alloc_ok
    THEN [qtds |-> T, urbs |-> U, qtd |-> NULL]
    ELSE LET r == dwc_otg_hcd_qtd_init(T, U, i, u)
         IN  [qtds |-> r.qtds, urbs |-> r.urbs, qtd |-> i]

----------------------------------------------------------------------------
(* The state after construction and the inputs of the calls *)

\* the periodic budget check_periodic_bandwidth subtracts from
Budget == IF core_params.speed = "HIGH" THEN 100 ELSE 900

\* bus times of the periodic endpoints: half the budget, a little more, and
\* more than the whole budget
UsecsSet == {Budget \div 2, Budget \div 2 + 10, Budget + 1}

\* The URBs submitted in Spec: high-speed devices, one (micro)frame interval.
\* Interrupt endpoints have wMaxPacketSize 64; isochronous ones 64, or 1024
\* bytes three times per microframe (0x1400).
SchedUrbs ==
    {u \in [pipetype : {"CONTROL", "BULK", "INT", "ISOC"}, pipein : {TRUE},
            speed : {"HIGH"}, tt_hub : {NULL}, interval : {1},
            maxp : {64, 5120}, bus_time_us : UsecsSet] :
        /\ u.maxp = 5120 => (u.pipetype = "ISOC" /\ u.bus_time_us = Budget \div 2)
        /\ u.pipetype \in {"CONTROL", "BULK"} => u.bus_time_us = Budget \div 2
        /\ (u.pipetype = "ISOC" /\ u.maxp = 64) => u.bus_time_us = Budget + 1
        /\ u.pipetype = "INT" => u.bus_time_us # Budget + 1}

\* frame numbers at which QHs are created, and at which they are deactivated
CreateFrames == {0}
DeactFrames == {0, SCHEDULE_SLOP + 1}

NoCall ==
    [op |-> "none", qh |-> NULL, retval |-> 0, linked |-> FALSE,
     frame_number |-> 0, sched_frame |-> 0, cursor |-> NULL,
     split |-> 0, speed |-> "NONE", prtspd |-> "NONE", qtd |-> NULL]

\* a call of op on QH q that returned retval; linked: the QH was in a schedule
\* list when the call was made; cursor: hcd->non_periodic_qh_ptr when the call
\* was made
Call(op, q, retval, linked) ==
    [op |-> op, qh |-> q, retval |-> retval, linked |-> linked,
     frame_number |-> 0, sched_frame |-> 0, cursor |-> hcd.non_periodic_qh_ptr,
     split |-> 0, speed |-> "NONE", prtspd |-> "NONE", qtd |-> NULL]

\* a call of qtd_add that made the QH q at frame_number for a device of the
\* given speed while the port ran at prtspd
CreateCall(q, retval, frame_number, speed, prtspd) ==
    [Call("qtd_add", q, retval, FALSE) EXCEPT
        !.frame_number = frame_number, !.speed = speed, !.prtspd = prtspd]

\* a call of qh_deactivate on QH q at frame_number; sched_frame: the QH's
\* sched_frame when the call was made; split: sched_next_periodic_split, kept
\* for the QHs that do split transactions
DeactivateCall(q, linked, frame_number, sched_frame) ==
    [op |-> "qh_deactivate", qh |-> q, retval |-> 0, linked |-> linked,
     frame_number |-> frame_number, sched_frame |-> sched_frame,
     cursor |-> hcd.non_periodic_qh_ptr,
     split |-> 0, speed |-> "NONE", prtspd |-> "NONE", qtd |-> NULL]

\* hcd->lock, free. smp: the kernel is built for several processors and
\* spin_lock_irqsave takes the lock; otherwise it only disables interrupts.
FreeLock(smp) == [smp |-> smp, owner |-> 0]

\* what a context saw of QH q when it made a call
NoSnap ==
    [linked |-> FALSE, drained |-> FALSE, periodic_channels |-> 0, periodic_usecs |-> 0]

\* the call a context has returned from
NoRet == [fn |-> "none", qh |-> NULL, retval |-> 0, snap |-> NoSnap]

\* a context that is in no call
IdleCtx == [stack |-> << >>, calls |-> 0, ret |-> NoRet]

\* the scheduler after dwc_otg_hcd_init
InitScheduler ==
    /\ core_params \in [host_channels : 2 .. 3, speed : {"HIGH", "FULL"},
                        max_transfer_size : {2047}]
    /\ hcd = [non_periodic_sched_inactive |-> << >>,
              non_periodic_sched_active |-> << >>,
              periodic_sched_inactive |-> << >>,
              periodic_sched_ready |-> << >>,
              periodic_sched_queued |-> << >>,
              non_periodic_qh_ptr |-> NULL,
              periodic_channels |-> 0,
              non_periodic_channels |-> 0,
              periodic_usecs |-> 0]
    /\ bus = [bandwidth_allocated |-> 0, bandwidth_int_reqs |-> 0,
              bandwidth_isoc_reqs |-> 0]
    /\ qh = [e \in QHS |-> ZeroQH]
    /\ hcpriv = [e \in QHS |-> NULL]
    /\ nqtd = 0
    /\ last = NoCall

\* no URB has been submitted, no QTD made and nothing freed
NoObjects ==
    /\ urbs = [u \in QTDS |-> NoURB]
    /\ qtds = [i \in QTDS |-> ZeroQTD]
    /\ kfreed = << >>

\* a processor that traps a division by zero
TrapCpu == [trap |-> TRUE, quotient |-> 0]

\* The periodic QHs of Spec, SpecFrame, SpecSplit, SpecLive, SpecLock and
\* SpecCursor have intervals of at least 1: nothing is divided by zero there.
Init ==
    /\ InitScheduler
    /\ lock = FreeLock(FALSE)
    /\ ctx = [t \in Ctxs |-> IdleCtx]
    /\ cpu = TrapCpu
    /\ NoObjects

----------------------------------------------------------------------------
(* One action per call *)

\* dwc_otg_hcd_qh_add(hcd, qh) on an existing QH
qh_add_call ==
    \E q \in QHS :
        /\ hcpriv[q] # NULL
        /\ \E r \in {dwc_otg_hcd_qh_add(hcd, bus, qh, q)} :
               /\ hcd' = r.hcd
               /\ bus' = r.bus
               /\ qh' = r.qh
               /\ last' = Call("qh_add", q, r.status, Linked(hcd, q))
        /\ UNCHANGED <<core_params, cpu, mem, hcpriv, nqtd, lock, ctx>>

\* dwc_otg_hcd_qh_remove(hcd, qh) on an existing QH
qh_remove_call ==
    \E q \in QHS :
        /\ hcpriv[q] # NULL
        /\ \E r \in {dwc_otg_hcd_qh_remove(hcd, bus, qh, q)} :
               /\ hcd' = r.hcd
               /\ bus' = r.bus
               /\ qh' = r.qh
               /\ last' = Call("qh_remove", q, r.status, Linked(hcd, q))
        /\ UNCHANGED <<core_params, cpu, mem, hcpriv, nqtd, lock, ctx>>

\* dwc_otg_hcd_qh_deactivate(hcd, qh, sched_next_periodic_split) at a frame of
\* Frames; a QH is followed while its sched_frame is in SchedFrames.
qh_deactivate_call(Frames, SchedFrames) ==
    \E q \in QHS, frame_number \in Frames, sched_next_periodic_split \in {0, 1} :
        /\ hcpriv[q] # NULL
        /\ \E r \in {dwc_otg_hcd_qh_deactivate(hcd, bus, qh, q,
                                                sched_next_periodic_split,
                                                frame_number)} :
               /\ r.qh[q].sched_frame \in SchedFrames
               /\ hcd' = r.hcd
               /\ bus' = r.bus
               /\ qh' = r.qh
               /\ last' = [DeactivateCall(q, Linked(hcd, q), frame_number,
                                          qh[q].sched_frame)
                              EXCEPT !.retval = r.status,
                                     !.split = IF qh[q].do_split # 0
                                               THEN sched_next_periodic_split
                                               ELSE 0]
        /\ UNCHANGED <<core_params, cpu, mem, hcpriv, nqtd, lock, ctx>>

\* dwc_otg_hcd_qtd_add(qtd, hcd) of a new QTD for an URB of Urbs on an endpoint
\* ep of Eps
qtd_add_call(Eps, Urbs, Frames) ==
    \E ep \in Eps, urb \in Urbs, frame_number \in Frames,
       prtspd \in {"HIGH", "FULL"}, alloc_ok \in BOOLEAN :
        /\ nqtd < MaxQtd
        \* endpoints get their QHs in the order of their numbers
        /\ \A e \in QHS : e < ep => hcpriv[e] # NULL
        \* the URBs of an endpoint that has a QH describe the same endpoint
        /\ hcpriv[ep] # NULL =>
               /\ prtspd = "HIGH" /\ alloc_ok
               /\ urb.pipetype = qh[ep].ep_type /\ urb.maxp = qh[ep].maxp
               /\ IsPeriodic(qh[ep]) => U16(urb.bus_time_us) = qh[ep].usecs
               /\ ~IsPeriodic(qh[ep]) => urb.bus_time_us = Budget \div 2
        /\ \E r \in {dwc_otg_hcd_qtd_add(hcd, bus, qh, hcpriv[ep], ep, nqtd + 1, urb,
                                          frame_number, prtspd, alloc_ok)} :
               /\ hcd' = r.hcd
               /\ bus' = r.bus
               /\ qh' = r.qh
               /\ hcpriv' = [hcpriv EXCEPT ![ep] = r.hcpriv]
               /\ nqtd' = nqtd + 1
               /\ last' = IF hcpriv[ep] = NULL /\ r.hcpriv # NULL
                          THEN CreateCall(r.hcpriv, r.status, frame_number,
                                          urb.speed, prtspd)
                          ELSE Call("qtd_add", r.hcpriv, r.status,
                                    hcpriv[ep] # NULL /\ Linked(hcd, ep))
        /\ UNCHANGED <<core_params, cpu, mem, lock, ctx>>

----------------------------------------------------------------------------
(* The execution engine (dwc_otg_hcd.c, dwc_otg_hcd_intr.c): it moves QHs  *)
(* between the lists of their kind, claims and releases non-periodic       *)
(* channels and takes QTDs off the QHs.                                    *)

\* dwc_otg_hcd_select_transactions: a non-periodic QH gets a channel
hcd_select_non_periodic ==
    \E q \in QHS :
        /\ InSeq(hcd.non_periodic_sched_inactive, q)
        /\ hcd.non_periodic_channels <
               core_params.host_channels - hcd.periodic_channels
        /\ hcd' = [list_move(hcd, q, "non_periodic_sched_active")
                     EXCEPT !.non_periodic_channels = @ + 1]
        /\ last' = NoCall
        /\ UNCHANGED <<core_params, cpu, mem, bus, qh, hcpriv, nqtd, lock, ctx>>

\* release_channel: the channel of a non-periodic transfer is given back, after
\* its QH was deactivated
hcd_release_non_periodic ==
    /\ hcd.non_periodic_channels > Len(hcd.non_periodic_sched_active)
    /\ hcd' = [hcd EXCEPT !.non_periodic_channels = @ - 1]
    /\ last' = NoCall
    /\ UNCHANGED <<core_params, cpu, mem, bus, qh, hcpriv, nqtd, lock, ctx>>

\* the start-of-frame interrupt: an inactive periodic QH becomes ready
hcd_sof_ready ==
    \E q \in QHS :
        /\ InSeq(hcd.periodic_sched_inactive, q)
        /\ hcd' = list_move(hcd, q, "periodic_sched_ready")
        /\ last' = NoCall
        /\ UNCHANGED <<core_params, cpu, mem, bus, qh, hcpriv, nqtd, lock, ctx>>

\* dwc_otg_hcd_select_transactions: a ready periodic QH is queued
hcd_select_periodic ==
    \E q \in QHS :
        /\ InSeq(hcd.periodic_sched_ready, q)
        /\ hcd' = list_move(hcd, q, "periodic_sched_queued")
        /\ last' = NoCall
        /\ UNCHANGED <<core_params, cpu, mem, bus, qh, hcpriv, nqtd, lock, ctx>>

\* dwc_otg_hcd_qtd_remove_and_free: a QTD completes or is dequeued
qtd_remove_call ==
    \E q \in QHS, i \in 1 .. MaxQtd :
        /\ i <= Len(qh[q].qtd_list)
        /\ qh' = [qh EXCEPT ![q].qtd_list = SeqRemove(@, qh[q].qtd_list[i])]
        /\ last' = NoCall
        /\ UNCHANGED <<core_params, cpu, mem, hcd, bus, hcpriv, nqtd, lock, ctx>>

----------------------------------------------------------------------------

Next ==
    \/ qh_add_call
    \/ qh_remove_call
    \/ qh_deactivate_call(DeactFrames, 0 .. FrameCap)
    \/ qtd_add_call(QHS, SchedUrbs, CreateFrames)
    \/ hcd_select_non_periodic
    \/ hcd_release_non_periodic
    \/ hcd_sof_ready
    \/ hcd_select_periodic
    \/ qtd_remove_call

Spec == Init /\ [][Next]_vars

----------------------------------------------------------------------------
(* SpecFrame: one periodic endpoint of a high-speed device, created and     *)
(* deactivated at frame numbers in the middle of the frame counter's range, *)
(* half the range apart and on both sides of its wrap-around.               *)

\* urb->interval of the endpoint, in microframes
FrameIntervals == {1, 4, 8192}

FrameUrbs ==
    [pipetype : {"INT", "ISOC"}, pipein : {TRUE}, speed : {"HIGH"}, tt_hub : {NULL},
     interval : FrameIntervals, maxp : {64}, bus_time_us : {Budget \div 2}]

\* hcd->frame_number when the QH is created: sched_frame starts SCHEDULE_SLOP
\* later, at 100 or at DWC_HFNUM_MAX_FRNUM - 3
FrameCreateFrames == {90, DWC_HFNUM_MAX_FRNUM - 3 - SCHEDULE_SLOP}

\* the frame numbers dwc_otg_hcd_get_frame_number returns
FrameDeactFrames == {2, 100, 104, DWC_HFNUM_MAX_FRNUM}

FrameBases == {0, 100, 8292, DWC_HFNUM_MAX_FRNUM - 3}

\* the values of sched_frame a QH is followed to
FrameSchedFrames ==
    {f \in 0 .. DWC_HFNUM_MAX_FRNUM : \E b \in FrameBases : f - b \in 0 .. FrameWindow}

NextFrame ==
    \/ qtd_add_call({1}, FrameUrbs, FrameCreateFrames)
    \/ qh_deactivate_call(FrameDeactFrames, FrameSchedFrames)
    \/ hcd_sof_ready
    \/ hcd_select_periodic
    \/ qtd_remove_call

SpecFrame == Init /\ [][NextFrame]_vars

----------------------------------------------------------------------------
(* SpecSplit: one periodic endpoint of a low-, full- or high-speed device,  *)
(* with or without a transaction translator, created while the port runs at *)
(* high or full speed and deactivated with and without                      *)
(* sched_next_periodic_split.                                               *)

\* urb->interval of the endpoint, in frames
SplitIntervals == {1}

\* dev->tt->hub->devnum: NULL for a device without transaction translator, 1
\* for the root hub, 2 for an external hub
SplitUrbs ==
    {u \in [pipetype : {"INT", "ISOC"}, pipein : BOOLEAN,
            speed : {"LOW", "FULL", "HIGH"}, tt_hub : {NULL, 1, 2},
            interval : SplitIntervals, maxp : {64}, bus_time_us : {Budget \div 2}] :
        /\ u.pipetype = "INT" => u.pipein
        /\ u.speed = "LOW" => (u.pipetype = "INT" /\ u.tt_hub = 2)
        /\ u.speed = "HIGH" => u.tt_hub = NULL}

\* hcd->frame_number when the QH is created
SplitCreateFrames == {90, DWC_HFNUM_MAX_FRNUM - 3 - SCHEDULE_SLOP}

\* the frame numbers dwc_otg_hcd_get_frame_number returns
SplitDeactFrames == {2, 103, 104, 8193, DWC_HFNUM_MAX_FRNUM}

SplitBases == {0, 96, 8192, DWC_HFNUM_MAX_FRNUM - 7}

\* the values of sched_frame a QH is followed to
SplitSchedFrames ==
    UNION {b .. b + 2 * FrameWindow : b \in SplitBases} \cap (0 .. DWC_HFNUM_MAX_FRNUM)

NextSplit ==
    \/ qtd_add_call({1}, SplitUrbs, SplitCreateFrames)
    \/ qh_deactivate_call(SplitDeactFrames, SplitSchedFrames)
    \/ qtd_remove_call

SpecSplit == Init /\ [][NextSplit]_vars

----------------------------------------------------------------------------
(* SpecLive: the execution engine keeps servicing every QH that is in a     *)
(* schedule list and calls dwc_otg_hcd_qh_deactivate on it when the service *)
(* ends.                                                                    *)

\* a bulk endpoint, and an interrupt endpoint with the longest high-speed
\* interval, 2^14 microframes, which is the whole range of the frame counter
LiveUrbs ==
    [pipetype : {"BULK", "INT"}, pipein : {TRUE}, speed : {"HIGH"}, tt_hub : {NULL},
     interval : {DWC_HFNUM_MAX_FRNUM + 1}, maxp : {64}, bus_time_us : {Budget \div 2}]

\* the engine has serviced QH q, which is in a schedule list, and calls
\* qh_deactivate on it
hcd_service_done(q) ==
    /\ Linked(hcd, q)
    /\ qh_deactivate_call(DeactFrames, 0 .. FrameCap)
    /\ last'.qh = q

NextLive ==
    \/ qh_add_call
    \/ qh_remove_call
    \/ \E q \in QHS : hcd_service_done(q)
    \/ qtd_add_call(QHS, LiveUrbs, CreateFrames)
    \/ hcd_select_non_periodic
    \/ hcd_release_non_periodic
    \/ hcd_sof_ready
    \/ hcd_select_periodic
    \/ qtd_remove_call

SpecLive ==
    /\ Init
    /\ [][NextLive]_vars
    /\ \A q \in QHS : WF_vars(hcd_service_done(q))

----------------------------------------------------------------------------
(* SpecLock: NumCtx contexts call qh_add, qh_remove, qh_deactivate and      *)
(* qtd_add concurrently. A step of a context is what it does between two    *)
(* operations on hcd->lock. SPIN_LOCK_IRQSAVE and SPIN_UNLOCK_IRQRESTORE    *)
(* are spin_lock_irqsave and spin_unlock_irqrestore: in a kernel built for  *)
(* several processors the lock is taken by one context at a time and is not *)
(* recursive; in a kernel built for one processor only the interrupts are   *)
(* disabled, flags holding whether they were disabled before.               *)

\* a bulk and an interrupt endpoint; the interrupt endpoint has the longest
\* high-speed interval, the whole range of the frame counter
LockUrb(pipetype) ==
    [pipetype |-> pipetype, pipein |-> TRUE, speed |-> "HIGH", tt_hub |-> NULL,
     interval |-> DWC_HFNUM_MAX_FRNUM + 1, maxp |-> 64, bus_time_us |-> Budget \div 2]

\* what context sees of QH q when it makes a call
Snap(q) ==
    [linked |-> Linked(hcd, q), drained |-> qh[q].qtd_list = << >>,
     periodic_channels |-> hcd.periodic_channels,
     periodic_usecs |-> hcd.periodic_usecs]

\* a call of fn on QH (or endpoint) q that has not yet taken the lock;
\* pipetype, alloc_ok and qtd are the inputs of qtd_add
Frame(fn, q, pipetype, alloc_ok, qtd, snap) ==
    [fn |-> fn, pc |-> "lock", qh |-> q, pipetype |-> pipetype, alloc_ok |-> alloc_ok,
     qtd |-> qtd, flags |-> 0, retval |-> 0, snap |-> snap]

\* the innermost call of context t
Top(t) == ctx[t].stack[Len(ctx[t].stack)]

\* ctx with the innermost call of context t replaced by fr
SetTop(t, fr) == [ctx EXCEPT ![t].stack[Len(ctx[t].stack)] = fr]

\* ctx after the innermost call of context t, left at pc, calls fn on QH q
CallFrom(t, pc, fn, q) ==
    [ctx EXCEPT ![t].stack =
        Append([@ EXCEPT ![Len(@)].pc = pc], Frame(fn, q, "NONE", TRUE, 0, NoSnap))]

\* context t is at pc of fn in its innermost call, past SPIN_LOCK_IRQSAVE
At(t, fn, pc) ==
    /\ ctx[t].stack # << >>
    /\ Top(t).fn = fn /\ Top(t).pc = pc
    /\ lock.owner = t

\* a context calls qh_add, qh_remove or qh_deactivate on an existing QH, or
\* qtd_add with a new QTD for endpoint 1
ctx_call(t) ==
    /\ ctx[t].stack = << >>
    /\ ctx[t].calls < MaxCalls
    /\ lock.smp \/ lock.owner = 0
    /\ \/ \E fn \in {"qh_add", "qh_remove", "qh_deactivate"}, q \in QHS :
              /\ hcpriv[q] # NULL
              /\ ctx' = [ctx EXCEPT ![t].stack = <<Frame(fn, q, "NONE", TRUE, 0, Snap(q))>>,
                                    ![t].ret = NoRet]
              /\ UNCHANGED nqtd
       \/ \E pipetype \in {"BULK", "INT"}, alloc_ok \in BOOLEAN :
              /\ nqtd < MaxQtd
              \* the URBs of an endpoint describe the same endpoint
              /\ hcpriv[1] # NULL => pipetype = qh[1].ep_type
              /\ \A u \in Ctxs : \A i \in 1 .. Len(ctx[u].stack) :
                     ctx[u].stack[i].fn = "qtd_add" => ctx[u].stack[i].pipetype = pipetype
              /\ nqtd' = nqtd + 1
              /\ ctx' = [ctx EXCEPT ![t].stack = <<Frame("qtd_add", 1, pipetype, alloc_ok,
                                                         nqtd + 1, NoSnap)>>,
                                    ![t].ret = NoRet]
    /\ UNCHANGED <<core_params, cpu, mem, hcd, bus, qh, hcpriv, last, lock>>

\* SPIN_LOCK_IRQSAVE(&hcd->lock, flags)
spin_lock_irqsave(t) ==
    /\ ctx[t].stack # << >>
    /\ Top(t).pc = "lock"
    /\ lock.owner = 0 \/ (~lock.smp /\ lock.owner = t)
    /\ lock' = [lock EXCEPT !.owner = t]
    /\ ctx' = SetTop(t, [Top(t) EXCEPT !.pc = "body", !.flags = lock.owner])
    /\ UNCHANGED <<core_params, cpu, mem, hcd, bus, qh, hcpriv, nqtd, last>>

\* SPIN_UNLOCK_IRQRESTORE(&hcd->lock, flags) and the return to the caller;
\* qtd_add keeps what qh_add returned
spin_unlock_irqrestore(t) ==
    /\ ctx[t].stack # << >>
    /\ Top(t).pc = "unlock"
    /\ lock.owner = t
    /\ lock' = [lock EXCEPT !.owner = IF lock.smp THEN 0 ELSE Top(t).flags]
    /\ ctx' = IF Len(ctx[t].stack) = 1
              THEN [ctx EXCEPT ![t].stack = << >>,
                               ![t].calls = @ + 1,
                               ![t].ret = [fn |-> Top(t).fn, qh |-> Top(t).qh,
                                           retval |-> Top(t).retval,
                                           snap |-> Top(t).snap]]
              ELSE [ctx EXCEPT ![t].stack =
                       [i \in 1 .. Len(@) - 1 |->
                           IF i = Len(@) - 1 /\ @[i].fn = "qtd_add"
                           THEN [@[i] EXCEPT !.retval = Top(t).retval]
                           ELSE @[i]]]
    /\ UNCHANGED <<core_params, cpu, mem, hcd, bus, qh, hcpriv, nqtd, last>>

\* dwc_otg_hcd_qh_add between its lock and its unlock
qh_add_body(t) ==
    /\ At(t, "qh_add", "body")
    /\ \E r \in {dwc_otg_hcd_qh_add(hcd, bus, qh, Top(t).qh)} :
           /\ hcd' = r.hcd
           /\ bus' = r.bus
           /\ qh' = r.qh
           /\ ctx' = SetTop(t, [Top(t) EXCEPT !.pc = "unlock", !.retval = r.status])
    /\ UNCHANGED <<core_params, cpu, mem, hcpriv, nqtd, last, lock>>

\* dwc_otg_hcd_qh_remove between its lock and its unlock
qh_remove_body(t) ==
    /\ At(t, "qh_remove", "body")
    /\ \E r \in {dwc_otg_hcd_qh_remove(hcd, bus, qh, Top(t).qh)} :
           /\ hcd' = r.hcd
           /\ bus' = r.bus
           /\ qh' = r.qh
           /\ ctx' = SetTop(t, [Top(t) EXCEPT !.pc = "unlock"])
    /\ UNCHANGED <<core_params, cpu, mem, hcpriv, nqtd, last, lock>>

\* dwc_otg_hcd_qh_deactivate after its lock: a non-periodic QH goes to
\* qh_remove; a periodic QH gets its next sched_frame and goes to qh_remove
\* when it has no QTD, to periodic_sched_ready or periodic_sched_inactive
\* otherwise
qh_deactivate_body(t) ==
    /\ At(t, "qh_deactivate", "body")
    /\ \E q \in {Top(t).qh}, frame_number \in DeactFrames :
           IF dwc_qh_is_non_per(qh[q])
           THEN /\ ctx' = CallFrom(t, "removed", "qh_remove", q)
                /\ UNCHANGED <<hcd, qh>>
           ELSE \E Q1 \in {[qh EXCEPT ![q] = NextSchedFrame(qh[q], 0, frame_number)]} :
                   /\ qh' = Q1
                   /\ IF Q1[q].qtd_list = << >>
                      THEN /\ ctx' = CallFrom(t, "unlock", "qh_remove", q)
                           /\ UNCHANGED hcd
                      ELSE /\ hcd' = list_move(hcd, q,
                                               IF Q1[q].sched_frame = frame_number
                                               THEN "periodic_sched_ready"
                                               ELSE "periodic_sched_inactive")
                           /\ ctx' = SetTop(t, [Top(t) EXCEPT !.pc = "unlock"])
    /\ UNCHANGED <<core_params, cpu, mem, bus, hcpriv, nqtd, last, lock>>

\* dwc_otg_hcd_qh_deactivate of a non-periodic QH after qh_remove: a QH with
\* QTDs goes to qh_add
qh_deactivate_removed(t) ==
    /\ At(t, "qh_deactivate", "removed")
    /\ ctx' = IF qh[Top(t).qh].qtd_list # << >>
              THEN CallFrom(t, "unlock", "qh_add", Top(t).qh)
              ELSE SetTop(t, [Top(t) EXCEPT !.pc = "unlock"])
    /\ UNCHANGED <<core_params, cpu, mem, hcd, bus, qh, hcpriv, nqtd, last, lock>>

\* dwc_otg_hcd_qtd_add after its lock: the QH of the endpoint is looked up or
\* made, and qh_add is called
qtd_add_body(t) ==
    /\ At(t, "qtd_add", "body")
    /\ \E ep \in {Top(t).qh}, frame_number \in CreateFrames :
           IF hcpriv[ep] = NULL /\ ~Top(t).alloc_ok
           THEN /\ ctx' = SetTop(t, [Top(t) EXCEPT !.pc = "unlock"])
                /\ UNCHANGED <<qh, hcpriv>>
           ELSE /\ qh' = IF hcpriv[ep] = NULL
                         THEN [qh EXCEPT ![ep] = dwc_otg_hcd_qh_init(
                                   LockUrb(Top(t).pipetype), frame_number, "HIGH")]
                         ELSE qh
                /\ hcpriv' = [hcpriv EXCEPT ![ep] = ep]
                /\ ctx' = CallFrom(t, "link", "qh_add", ep)
    /\ UNCHANGED <<core_params, cpu, mem, hcd, bus, nqtd, last, lock>>

\* dwc_otg_hcd_qtd_add after qh_add: the QTD is linked when qh_add returned 0
qtd_add_link(t) ==
    /\ At(t, "qtd_add", "link")
    /\ qh' = IF Top(t).retval = 0
             THEN [qh EXCEPT ![Top(t).qh].qtd_list = Append(@, Top(t).qtd)]
             ELSE qh
    /\ ctx' = SetTop(t, [Top(t) EXCEPT !.pc = "unlock"])
    /\ UNCHANGED <<core_params, cpu, mem, hcd, bus, hcpriv, nqtd, last, lock>>

\* the engine takes a QTD off a QH while no context holds the lock
hcd_complete_qtd ==
    /\ lock.owner = 0
    /\ qtd_remove_call

InitLock ==
    /\ InitScheduler
    /\ core_params.host_channels = 2 /\ core_params.speed = "HIGH"
    /\ lock \in {FreeLock(smp) : smp \in BOOLEAN}
    /\ ctx = [t \in Ctxs |-> IdleCtx]
    /\ cpu = TrapCpu
    /\ NoObjects

NextLock ==
    \/ \E t \in Ctxs : ctx_call(t)
    \/ \E t \in Ctxs : spin_lock_irqsave(t)
    \/ \E t \in Ctxs : spin_unlock_irqrestore(t)
    \/ \E t \in Ctxs : qh_add_body(t)
    \/ \E t \in Ctxs : qh_remove_body(t)
    \/ \E t \in Ctxs : qh_deactivate_body(t)
    \/ \E t \in Ctxs : qh_deactivate_removed(t)
    \/ \E t \in Ctxs : qtd_add_body(t)
    \/ \E t \in Ctxs : qtd_add_link(t)
    \/ hcd_complete_qtd

SpecLock == InitLock /\ [][NextLock]_vars

----------------------------------------------------------------------------
(* SpecCursor: the execution engine walks the active non-periodic schedule  *)
(* with hcd->non_periodic_qh_ptr while QHs are admitted, withdrawn and      *)
(* deactivated.                                                             *)

\* process_non_periodic_channels: the engine leaves non_periodic_qh_ptr at an
\* entry of non_periodic_sched_active or at the list head (NULL here)
process_non_periodic_channels ==
    \E p \in {NULL} \cup {q \in QHS : InSeq(hcd.non_periodic_sched_active, q)} :
        /\ hcd' = [hcd EXCEPT !.non_periodic_qh_ptr = p]
        /\ last' = NoCall
        /\ UNCHANGED <<core_params, cpu, mem, bus, qh, hcpriv, nqtd, lock, ctx>>

\* control and bulk endpoints, and an interrupt endpoint that fits the budget
CursorUrbs ==
    {u \in SchedUrbs : u.pipetype \in {"CONTROL", "BULK", "INT"}
                        /\ u.bus_time_us = Budget \div 2}

NextCursor ==
    \/ qh_add_call
    \/ qh_remove_call
    \/ qh_deactivate_call(DeactFrames, 0 .. FrameCap)
    \/ qtd_add_call(QHS, CursorUrbs, CreateFrames)
    \/ hcd_select_non_periodic
    \/ hcd_release_non_periodic
    \/ process_non_periodic_channels
    \/ qtd_remove_call

SpecCursor == Init /\ [][NextCursor]_vars

----------------------------------------------------------------------------
(* SpecObj: the URBs of one device are submitted to its endpoints. A QTD is  *)
(* made for each URB (dwc_otg_hcd_qtd_create) and added                     *)
(* (dwc_otg_hcd_qtd_add): the QH of the endpoint is looked up or made, then *)
(* admitted, and the QTD is linked. QHs are withdrawn, and the engine makes *)
(* periodic QHs ready and saves the data toggle of QHs. The device may be   *)
(* of any speed, behind a transaction translator or not, and its URBs may   *)
(* have the intervals 0 and 8192.                                           *)

\* urb->interval of the URBs
ObjIntervals == {0, 1, 8192}

\* the endpoints of a device are of one kind here; low-speed devices have
\* control and interrupt endpoints only, high-speed devices no transaction
\* translator
ObjUrbs ==
    {u \in [pipetype : {"CONTROL", "BULK", "INT", "ISOC"}, pipein : {TRUE},
            speed : {"LOW", "FULL", "HIGH"}, tt_hub : {NULL, 1, 2},
            interval : ObjIntervals, maxp : {64}, bus_time_us : {50},
            ep : QHS, hcpriv : {NULL}] :
        /\ u.pipetype \in {"CONTROL", "BULK"} => u.interval = 1
        /\ u.interval = 8192 => (u.pipetype = "ISOC" /\ u.speed = "FULL")
        /\ u.speed = "LOW" => u.pipetype \in {"CONTROL", "INT"}
        /\ u.speed = "HIGH" => u.tt_hub = NULL}

\* hcd->frame_number when a QH is made
ObjCreateFrames == {90, DWC_HFNUM_MAX_FRNUM - 3}

\* the processors: one that traps a division by zero, and two that leave a
\* quotient
Cpus == {TrapCpu} \cup {[trap |-> FALSE, quotient |-> v] : v \in {0, 65535}}

\* u and v are URBs for endpoints of the same device
SameDevice(u, v) == [u EXCEPT !.ep = v.ep] = v

InitObj ==
    /\ InitScheduler
    /\ core_params.host_channels = 3 /\ core_params.speed = "HIGH"
    /\ lock = FreeLock(FALSE)
    /\ ctx = [t \in Ctxs |-> IdleCtx]
    /\ cpu \in Cpus
    /\ urbs \in [QTDS -> ObjUrbs]
    /\ urbs[1].ep = 1
    \* the processor plays no part when nothing is divided by zero
    /\ (urbs[1].pipetype \in {"CONTROL", "BULK"} \/ urbs[1].interval = 1) => cpu = TrapCpu
    /\ \A u \in QTDS : SameDevice(urbs[u], urbs[1])
    /\ qtds = [i \in QTDS |-> ZeroQTD]
    /\ kfreed = << >>

\* a call has been stopped by the divide-error trap: the kernel has died
Halted ==
    /\ last.op \in {"qtd_add", "qh_add", "qh_remove"}
    /\ last.retval = DivideError

\* dwc_otg_hcd_urb_enqueue has made a QTD and not yet added it
Pending == last.op = "qtd_create" /\ last.retval # NULL

\* dwc_otg_hcd_qtd_add has the QH and has not yet called qh_add
Looked == last.op \in {"qh_create", "qh_lookup"}

\* no call is in progress
Idle == ~Halted /\ ~Pending /\ ~Looked

\* dwc_otg_hcd_qtd_create(urb, mem_flags) for the next URB
qtd_create_call ==
    \E alloc_ok \in BOOLEAN :
        /\ Idle
        /\ nqtd < MaxQtd
        /\ \E r \in {dwc_otg_hcd_qtd_create(qtds, urbs, nqtd + 1, nqtd + 1, alloc_ok)} :
               /\ qtds' = r.qtds
               /\ urbs' = r.urbs
               /\ last' = [Call("qtd_create", NULL, r.qtd, FALSE) EXCEPT !.qtd = r.qtd]
        /\ nqtd' = nqtd + 1
        /\ UNCHANGED <<core_params, cpu, kfreed, hcd, bus, qh, hcpriv, lock, ctx>>

\* dwc_otg_hcd_qtd_add(qtd, hcd) up to the call of qh_add: the QH of the URB's
\* endpoint is looked up, or made at frame_number while the port runs at prtspd
qtd_add_lookup ==
    \E frame_number \in ObjCreateFrames, prtspd \in {"HIGH", "FULL"} :
        /\ Pending
        /\ \E i \in {last.qtd} : \E urb \in {urbs[qtds[i].urb]} :
               IF hcpriv[urb.ep] = NULL
               THEN /\ qh' = [qh EXCEPT ![urb.ep] =
                                 dwc_otg_hcd_qh_init(urb, frame_number, prtspd)]
                    /\ hcpriv' = [hcpriv EXCEPT ![urb.ep] = urb.ep]
                    /\ last' = [CreateCall(urb.ep, 0, frame_number, urb.speed, prtspd)
                                  EXCEPT !.op = "qh_create", !.qtd = i]
               ELSE /\ UNCHANGED <<qh, hcpriv>>
                    /\ last' = [Call("qh_lookup", urb.ep, 0, Linked(hcd, urb.ep))
                                  EXCEPT !.qtd = i]
        /\ UNCHANGED <<core_params, cpu, mem, hcd, bus, nqtd, lock, ctx>>

\* dwc_otg_hcd_qtd_add from the call of qh_add: the QTD is linked when qh_add
\* returned 0
qtd_add_admit ==
    /\ Looked
    /\ \E q \in {last.qh} : \E r \in {dwc_otg_hcd_qh_add(hcd, bus, qh, q)} :
           /\ hcd' = r.hcd
           /\ bus' = r.bus
           /\ qh' = IF r.status = 0
                    THEN [r.qh EXCEPT ![q].qtd_list = Append(@, last.qtd)]
                    ELSE r.qh
           /\ last' = [Call("qtd_add", q, r.status, Linked(hcd, q))
                         EXCEPT !.qtd = last.qtd]
    /\ UNCHANGED <<core_params, cpu, mem, hcpriv, nqtd, lock, ctx>>

\* save_data_toggle (dwc_otg_hcd_intr.c): the engine saves the data toggle of
\* a transfer in its QH
hcd_save_data_toggle ==
    \E q \in QHS :
        /\ Linked(hcd, q)
        /\ qh[q].qtd_list # << >>
        /\ qh' = [qh EXCEPT ![q].data_toggle =
                     IF @ = DWC_OTG_HC_PID_DATA0 THEN DWC_OTG_HC_PID_DATA1
                                                 ELSE DWC_OTG_HC_PID_DATA0]
        /\ last' = NoCall
        /\ UNCHANGED <<core_params, cpu, mem, hcd, bus, hcpriv, nqtd, lock, ctx>>

NextObj ==
    \/ qtd_create_call
    \/ qtd_add_lookup
    \/ qtd_add_admit
    \/ Idle /\ qh_remove_call
    \/ Idle /\ hcd_sof_ready
    \/ Idle /\ hcd_save_data_toggle

SpecObj == InitObj /\ [][NextObj]_vars

----------------------------------------------------------------------------
(* SpecFree: NumCtx contexts call dwc_otg_hcd_qh_free while QTDs are added  *)
(* to and taken off other QHs. A step of the loop is one iteration. The     *)
(* callers free a QH once and make no other call on a QH that is being      *)
(* freed or has been freed (the endpoint is disabled first).                *)

\* an entry of kfreed: QTD i given to dwc_otg_hcd_qtd_free, QH q given to kfree
FreedQtd(i) == [kind |-> "qtd", id |-> i]
FreedQH(q) == [kind |-> "qh", id |-> q]

\* what a context sees of QH q when it calls qh_free
FreeSnap(q) ==
    [linked |-> Linked(hcd, q), drained |-> qh[q].qtd_list = << >>,
     periodic_channels |-> hcd.periodic_channels,
     periodic_usecs |-> hcd.periodic_usecs,
     qtd_list |-> qh[q].qtd_list]

\* some context is in dwc_otg_hcd_qh_free(hcd, q)
Freeing(q) ==
    \E t \in Ctxs : \E i \in 1 .. Len(ctx[t].stack) :
        ctx[t].stack[i].fn = "qh_free" /\ ctx[t].stack[i].qh = q

\* QH q exists, is not being freed and has not been freed
Usable(q) ==
    /\ hcpriv[q] # NULL
    /\ ~Freeing(q)
    /\ ~InSeq(kfreed, FreedQH(q))

\* the URBs of SpecFree
FreeUrbs == {LockUrb("BULK"), LockUrb("INT")}

\* a context calls dwc_otg_hcd_qh_free(hcd, qh)
ctx_free_call(t) ==
    /\ ctx[t].stack = << >>
    /\ ctx[t].calls < MaxCalls
    /\ lock.smp \/ lock.owner = 0
    /\ \E q \in QHS :
           /\ Usable(q)
           /\ ctx' = [ctx EXCEPT ![t].stack = <<Frame("qh_free", q, "NONE", TRUE, 0,
                                                      FreeSnap(q))>>,
                                 ![t].ret = NoRet]
    /\ UNCHANGED <<core_params, cpu, mem, hcd, bus, qh, hcpriv, nqtd, last, lock>>

\* (mutant) a loop that unlinks and frees the last entry of the qtd_list
qh_free_loop_step_FromTail(t) ==
    /\ At(t, "qh_free", "body")
    /\ qh[Top(t).qh].qtd_list # << >>
    /\ \E l \in {qh[Top(t).qh].qtd_list} :
           /\ qh' = [qh EXCEPT ![Top(t).qh].qtd_list = SubSeq(l, 1, Len(l) - 1)]
           /\ kfreed' = Append(kfreed, FreedQtd(l[Len(l)]))
    /\ UNCHANGED <<core_params, cpu, urbs, qtds, hcd, bus, hcpriv, nqtd, last, lock, ctx>>

\* one iteration of the loop of dwc_otg_hcd_qh_free: the first entry of the
\* qtd_list is unlinked and given to dwc_otg_hcd_qtd_free
qh_free_loop_step(t) ==
    /\ At(t, "qh_free", "body")
    /\ qh[Top(t).qh].qtd_list # << >>
    /\ qh' = [qh EXCEPT ![Top(t).qh].qtd_list = Tail(@)]
    /\ kfreed' = Append(kfreed, FreedQtd(Head(qh[Top(t).qh].qtd_list)))
    /\ UNCHANGED <<core_params, cpu, urbs, qtds, hcd, bus, hcpriv, nqtd, last, lock, ctx>>

\* the loop of dwc_otg_hcd_qh_free finds the qtd_list empty, and
\* SPIN_UNLOCK_IRQRESTORE(&hcd->lock, flags)
qh_free_unlock(t) ==
    /\ At(t, "qh_free", "body")
    /\ qh[Top(t).qh].qtd_list = << >>
    /\ lock' = [lock EXCEPT !.owner = IF lock.smp THEN 0 ELSE Top(t).flags]
    /\ ctx' = SetTop(t, [Top(t) EXCEPT !.pc = "kfree"])
    /\ UNCHANGED <<core_params, cpu, mem, hcd, bus, qh, hcpriv, nqtd, last>>

\* kfree(qh) and the return of dwc_otg_hcd_qh_free
qh_free_kfree(t) ==
    /\ ctx[t].stack # << >>
    /\ Top(t).fn = "qh_free" /\ Top(t).pc = "kfree"
    /\ lock.smp \/ lock.owner = 0
    /\ kfreed' = Append(kfreed, FreedQH(Top(t).qh))
    /\ ctx' = [ctx EXCEPT ![t].stack = << >>,
                          ![t].calls = @ + 1,
                          ![t].ret = [fn |-> "qh_free", qh |-> Top(t).qh,
                                      retval |-> 0, snap |-> Top(t).snap]]
    /\ UNCHANGED <<core_params, cpu, urbs, qtds, hcd, bus, qh, hcpriv, nqtd, last, lock>>

\* no context holds hcd->lock, and the call is on a QH that is in use
Unlocked(q) == lock.owner = 0 /\ (q # NULL => ~Freeing(q) /\ ~InSeq(kfreed, FreedQH(q)))

InitFree ==
    /\ InitScheduler
    /\ core_params.host_channels = 3 /\ core_params.speed = "HIGH"
    /\ lock \in {FreeLock(smp) : smp \in BOOLEAN}
    /\ ctx = [t \in Ctxs |-> IdleCtx]
    /\ cpu = TrapCpu
    /\ NoObjects

NextFree ==
    \/ \E t \in Ctxs : ctx_free_call(t)
    \/ \E t \in Ctxs : spin_lock_irqsave(t)
    \/ \E t \in Ctxs : qh_free_loop_step(t)
    \/ \E t \in Ctxs : qh_free_unlock(t)
    \/ \E t \in Ctxs : qh_free_kfree(t)
    \/ \E ep \in QHS : Unlocked(hcpriv[ep]) /\ qtd_add_call({ep}, FreeUrbs, CreateFrames)
    \/ qh_remove_call /\ Unlocked(last'.qh)
    \/ \E q \in QHS : Unlocked(q) /\ qh[q].qtd_list # << >> /\ qtd_remove_call /\ qh'[q] # qh[q]

SpecFree == InitFree /\ [][NextFree]_vars

\* a context that holds hcd->lock with the interrupts disabled runs on: the
\* loop of qh_free takes its next iteration and reaches its unlock
SpecFreeLive ==
    /\ SpecFree
    /\ \A t \in Ctxs : WF_vars(qh_free_loop_step(t)) /\ WF_vars(qh_free_unlock(t))

----------------------------------------------------------------------------
(* Properties *)

\* QH q was created for a control or bulk endpoint
ControlOrBulk(q) == qh[q].ep_type \in {"CONTROL", "BULK"}

\* QH q was created for an interrupt or isochronous endpoint
IntOrIsoc(q) == qh[q].ep_type \in {"INT", "ISOC"}

\* the QHs that exist (ep->hcpriv is set)
Existing == {q \in QHS : hcpriv[q] # NULL}

RECURSIVE SumUsecs(_)
\* the sum of usecs over the QHs of the list s
SumUsecs(s) == IF s = << >> THEN 0 ELSE qh[Head(s)].usecs + SumUsecs(Tail(s))

\* the sum of usecs over the QHs linked in the three periodic lists
ClaimedUsecs ==
    SumUsecs(hcd.periodic_sched_inactive) + SumUsecs(hcd.periodic_sched_ready)
    + SumUsecs(hcd.periodic_sched_queued)

\* the QHs linked in a periodic list
InPeriodicLists(h, q) == \E l \in PeriodicLists : InSeq(h[l], q)

\* C1: every QH is in at most one of the five schedule lists, and at most
\* once in it.
C1_BucketExclusivity == \A q \in QHS : TotalOccurrences(hcd, q) <= 1

\* C1 witness: qh_deactivate has put a QH that was in no list into a periodic
\* list, while the other QH is linked too.
C1_Witness ==
    /\ last.op = "qh_deactivate" /\ ~last.linked
    /\ InPeriodicLists(hcd, last.qh)
    /\ \E q \in QHS : q # last.qh /\ TotalOccurrences(hcd, q) = 1

\* C2 (as claimed): periodic_usecs is the sum of usecs over the QHs linked in
\* the periodic lists.
C2_BandwidthConservation == hcd.periodic_usecs = ClaimedUsecs

\* C3: qh_add on a QH that is linked in a schedule list returns 0 and leaves
\* the lists, periodic_channels, periodic_usecs and the bus counters as they
\* are.
C3_AdmissionIdempotent ==
    \A q \in Existing :
        Linked(hcd, q) =>
            LET r == dwc_otg_hcd_qh_add(hcd, bus, qh, q)
            IN  r.status = 0 /\ r.hcd = hcd /\ r.bus = bus /\ r.qh = qh

\* C3 witness: qh_add was called on a linked periodic QH that holds a
\* reservation.
C3_Witness ==
    /\ last.op = "qh_add" /\ last.linked /\ last.retval = 0
    /\ InPeriodicLists(hcd, last.qh)
    /\ hcd.periodic_usecs = qh[last.qh].usecs /\ hcd.periodic_channels = 1

\* C4: when qh_add returns non-zero, the lists, the counters and the bus
\* counters are what they were and the QH is in no list.
C4_FailureTransactional ==
    \A q \in Existing :
        LET r == dwc_otg_hcd_qh_add(hcd, bus, qh, q)
        IN  r.status # 0 =>
                /\ r.hcd = hcd /\ r.bus = bus /\ r.qh = qh
                /\ ~Linked(r.hcd, q)

\* C4 witness: qh_add of a periodic QH returned -ENOSPC while another QH
\* holds a reservation.
C4_Witness ==
    /\ last.op = "qh_add" /\ last.retval = -ENOSPC
    /\ IntOrIsoc(last.qh)
    /\ hcd.periodic_channels = 1 /\ hcd.periodic_usecs > 0

\* the three conditions of admission, as the claim states them
C5_Conditions(q) ==
    /\ hcd.periodic_channels + hcd.non_periodic_channels < core_params.host_channels
    /\ hcd.periodic_channels < core_params.host_channels - 1
    /\ hcd.periodic_usecs <= Budget - qh[q].usecs
    /\ dwc_max_packet(qh[q].maxp) * dwc_hb_mult(qh[q].maxp)
           <= core_params.max_transfer_size

\* C5 (as claimed): qh_add of a periodic QH that is in no list returns 0 if
\* and only if the three conditions hold, and -ENOSPC otherwise.
C5_AdmissionDecision ==
    \A q \in Existing :
        (IntOrIsoc(q) /\ ~Linked(hcd, q)) =>
            LET r == dwc_otg_hcd_qh_add(hcd, bus, qh, q)
            IN  /\ r.status = 0 <=> C5_Conditions(q)
                /\ r.status # 0 => r.status = -ENOSPC

\* C6 (as claimed): periodic_usecs never exceeds the budget of the
\* controller's speed.
C6_BudgetNeverExceeded == hcd.periodic_usecs <= Budget

\* C7 (as claimed): where the channel and transfer size checks pass, a periodic
\* QH is admitted when periodic_usecs + usecs is the budget and denied when it
\* is the budget plus one.
C7_BandwidthBoundary ==
    \A q \in Existing :
        (/\ IntOrIsoc(q) /\ ~Linked(hcd, q)
         /\ periodic_channel_available(hcd) = 0
         /\ check_max_xfer_size(qh[q]) = 0) =>
            LET r == dwc_otg_hcd_qh_add(hcd, bus, qh, q)
            IN  /\ hcd.periodic_usecs + qh[q].usecs = Budget => r.status = 0
                /\ hcd.periodic_usecs + qh[q].usecs = Budget + 1 => r.status = -ENOSPC

\* C8 (as claimed): periodic_channels stays between 0 and host_channels - 1.
C8_ChannelReservation ==
    /\ hcd.periodic_channels <= core_params.host_channels - 1
    /\ hcd.periodic_channels >= 0

\* h with the list non_periodic_sched_inactive set to s
WithNonPeriodicInactive(h, s) == [h EXCEPT !.non_periodic_sched_inactive = s]

\* C9: qh_add of a control or bulk QH that is in no list returns 0, appends it
\* at the tail of non_periodic_sched_inactive and changes nothing else.
C9_NonPeriodicAdmission ==
    \A q \in Existing :
        (ControlOrBulk(q) /\ ~Linked(hcd, q)) =>
            LET r == dwc_otg_hcd_qh_add(hcd, bus, qh, q)
            IN  /\ r.status = 0
                /\ r.hcd = WithNonPeriodicInactive(
                               hcd, Append(hcd.non_periodic_sched_inactive, q))
                /\ r.bus = bus /\ r.qh = qh

\* C9 witness: a control or bulk QH was added behind another one while no
\* periodic channel was available and bandwidth was claimed.
C9_Witness ==
    /\ last.op = "qh_add" /\ ~last.linked /\ last.retval = 0
    /\ ControlOrBulk(last.qh)
    /\ Len(hcd.non_periodic_sched_inactive) = 1
    /\ hcd.non_periodic_sched_inactive[1] = last.qh
    /\ periodic_channel_available(hcd) # 0
    /\ hcd.periodic_usecs > 0

\* the QTD is on no QH's list
QtdInNoList(Q, qtd) == \A q \in QHS : ~InSeq(Q[q].qtd_list, qtd)

\* C10: where qtd_add calls qh_add (the endpoint has a QH, or one could be
\* allocated), it returns what qh_add returns for that QH; it appends the QTD
\* at the tail of the QH's qtd_list when that is 0, and otherwise leaves the
\* qtd_list as it is and the QTD in no list.  After every qtd_add that
\* returned non-zero the new QTD is in no list and the value is -ENOSPC; after
\* every qtd_add that called qh_add and returned 0 it is the last of its QH.
C10_QtdLinkedOnlyOnAdmission ==
    /\ \A ep \in QHS : \A urb \in SchedUrbs : \A alloc_ok \in BOOLEAN :
        LET Q1 == IF hcpriv[ep] = NULL
                  THEN [qh EXCEPT ![ep] = dwc_otg_hcd_qh_init(urb, 0, "HIGH")]
                  ELSE qh
            a == dwc_otg_hcd_qh_add(hcd, bus, Q1, ep)
            r == dwc_otg_hcd_qtd_add(hcd, bus, qh, hcpriv[ep], ep, nqtd + 1, urb,
                                     0, "HIGH", alloc_ok)
        IN  (hcpriv[ep] # NULL \/ alloc_ok) =>
                /\ r.status = a.status
                /\ a.status = 0 =>
                       r.qh[ep].qtd_list = Append(Q1[ep].qtd_list, nqtd + 1)
                /\ a.status # 0 =>
                       /\ r.qh[ep].qtd_list = Q1[ep].qtd_list
                       /\ QtdInNoList(r.qh, nqtd + 1)
    /\ (last.op = "qtd_add" /\ last.retval # 0) =>
           QtdInNoList(qh, nqtd) /\ last.retval = -ENOSPC
    /\ (last.op = "qtd_add" /\ last.retval = 0 /\ last.qh # NULL) =>
           /\ qh[last.qh].qtd_list # << >>
           /\ qh[last.qh].qtd_list[Len(qh[last.qh].qtd_list)] = nqtd

\* C10 witness: qtd_add returned -ENOSPC for a QH that holds no QTD, and the
\* new QTD is in no list.
C10_Witness ==
    /\ last.op = "qtd_add" /\ last.retval = -ENOSPC
    /\ last.qh # NULL /\ qh[last.qh].qtd_list = << >>
    /\ QtdInNoList(qh, nqtd)

\* C11 (as claimed): whenever qtd_add has returned 0, the new QTD is linked on
\* a QH's qtd_list (a failed QH allocation is reported by a non-zero value).
C11_AllocFailurePropagated ==
    (last.op = "qtd_add" /\ last.retval = 0) => ~QtdInNoList(qh, nqtd)

\* C12: QTDs are numbered in the order of the qtd_add calls.  On every QH the
\* qtd_list holds them in that order, head to tail; qh_add, qh_remove and
\* qh_deactivate leave every qtd_list as it is; qh_free frees the QTDs in the
\* order of the list.
C12_FifoPerQH ==
    /\ \A q \in QHS : \A i, j \in 1 .. Len(qh[q].qtd_list) :
           i < j => qh[q].qtd_list[i] < qh[q].qtd_list[j]
    /\ \A q \in Existing :
           /\ \A e \in QHS :
                  /\ dwc_otg_hcd_qh_add(hcd, bus, qh, q).qh[e].qtd_list = qh[e].qtd_list
                  /\ dwc_otg_hcd_qh_remove(hcd, bus, qh, q).qh[e].qtd_list
                         = qh[e].qtd_list
                  /\ \A f \in DeactFrames, s \in {0, 1} :
                         dwc_otg_hcd_qh_deactivate(hcd, bus, qh, q, s, f).qh[e].qtd_list
                             = qh[e].qtd_list
           /\ dwc_otg_hcd_qh_free(qh, q).freed = qh[q].qtd_list

\* C12 witness: a QH holds two QTDs, the second enqueued after the QH was
\* admitted, and the QH has been deactivated since.
C12_Witness ==
    /\ last.op = "qh_deactivate" /\ last.linked
    /\ Len(qh[last.qh].qtd_list) = 2
    /\ Linked(hcd, last.qh)

\* C14: qh_remove on a QH that is in no schedule list leaves the HCD (lists,
\* counters, non_periodic_qh_ptr), the bus counters and the QHs as they are; a
\* second qh_remove right after a first changes nothing, so that two calls on
\* a linked periodic QH take one channel and the QH's usecs off the counters.
C14_WithdrawIdempotent ==
    \A q \in Existing :
        LET r1 == dwc_otg_hcd_qh_remove(hcd, bus, qh, q)
            r2 == dwc_otg_hcd_qh_remove(r1.hcd, r1.bus, r1.qh, q)
        IN  /\ ~Linked(hcd, q) => (r1.hcd = hcd /\ r1.bus = bus /\ r1.qh = qh)
            /\ r2.hcd = r1.hcd /\ r2.bus = r1.bus /\ r2.qh = r1.qh
            /\ (IntOrIsoc(q) /\ Linked(hcd, q)) =>
                   /\ r2.hcd.periodic_channels = hcd.periodic_channels - 1
                   /\ r2.hcd.periodic_usecs
                          = (hcd.periodic_usecs - qh[q].usecs) % 65536

\* C14 witness: qh_remove was called on a periodic QH that was in no list
\* while the other QH holds a reservation.
C14_Witness ==
    /\ last.op = "qh_remove" /\ ~last.linked
    /\ IntOrIsoc(last.qh)
    /\ hcd.periodic_channels = 1 /\ hcd.periodic_usecs > 0
    /\ \E q \in Existing : q # last.qh /\ InPeriodicLists(hcd, q)

\* C15: for a periodic QH that is in no list, a qh_add that returns 0, then up
\* to two qh_deactivate calls, then qh_remove leave periodic_channels,
\* periodic_usecs, bandwidth_allocated and the request counters at their
\* values before the qh_add, and the QH in no list.
C15_WithdrawInverseOfAdmit ==
    \A q \in Existing :
        (IntOrIsoc(q) /\ ~Linked(hcd, q)) =>
            LET a == dwc_otg_hcd_qh_add(hcd, bus, qh, q)
            IN  a.status = 0 =>
                    \A n \in 0 .. 2 : \A f1, f2 \in DeactFrames :
                        LET d1 == IF n >= 1
                                  THEN dwc_otg_hcd_qh_deactivate(a.hcd, a.bus, a.qh, q, 0, f1)
                                  ELSE a
                            d2 == IF n >= 2
                                  THEN dwc_otg_hcd_qh_deactivate(d1.hcd, d1.bus, d1.qh, q, 0, f2)
                                  ELSE d1
                            r == dwc_otg_hcd_qh_remove(d2.hcd, d2.bus, d2.qh, q)
                        IN  /\ r.hcd.periodic_channels = hcd.periodic_channels
                            /\ r.hcd.periodic_usecs = hcd.periodic_usecs
                            /\ r.bus = bus
                            /\ ~Linked(r.hcd, q)

\* C15 witness: a periodic QH was admitted, moved by qh_deactivate and then
\* removed by qh_remove, and every counter is back at zero.
C15_Witness ==
    /\ last.op = "qh_remove" /\ last.linked
    /\ IntOrIsoc(last.qh)
    /\ qh[last.qh].sched_frame = SCHEDULE_SLOP + 1
    /\ qh[last.qh].qtd_list # << >>
    /\ hcd.periodic_channels = 0 /\ hcd.periodic_usecs = 0
    /\ bus.bandwidth_allocated = 0
    /\ bus.bandwidth_int_reqs = 0 /\ bus.bandwidth_isoc_reqs = 0

\* C16 (as claimed): qh_deactivate on a periodic QH that is in a schedule list
\* and has an empty qtd_list leaves it in no list, periodic_channels one less
\* and periodic_usecs the QH's usecs less than before.
C16_DeactivateEmptyPeriodic ==
    \A q \in Existing :
        (IntOrIsoc(q) /\ Linked(hcd, q) /\ qh[q].qtd_list = << >>) =>
            \A f \in DeactFrames, s \in {0, 1} :
                LET r == dwc_otg_hcd_qh_deactivate(hcd, bus, qh, q, s, f)
                IN  /\ ~Linked(r.hcd, q)
                    /\ r.hcd.periodic_channels = hcd.periodic_channels - 1
                    /\ r.hcd.periodic_usecs = hcd.periodic_usecs - qh[q].usecs

\* C18: after qh_deactivate on a periodic QH with a non-empty qtd_list the QH
\* is in exactly one list: periodic_sched_ready if and only if its sched_frame
\* is the frame number of the call, and otherwise periodic_sched_inactive,
\* never periodic_sched_queued; the call leaves periodic_channels,
\* periodic_usecs and the bus counters as they are.
C18_PlacementAfterDeactivation ==
    /\ (/\ last.op = "qh_deactivate" /\ IntOrIsoc(last.qh)
        /\ qh[last.qh].qtd_list # << >>) =>
           /\ TotalOccurrences(hcd, last.qh) = 1
           /\ InSeq(hcd.periodic_sched_ready, last.qh)
                  <=> qh[last.qh].sched_frame = last.frame_number
           /\ qh[last.qh].sched_frame # last.frame_number
                  => InSeq(hcd.periodic_sched_inactive, last.qh)
           /\ ~InSeq(hcd.periodic_sched_queued, last.qh)
    /\ \A q \in Existing :
           (IntOrIsoc(q) /\ qh[q].qtd_list # << >>) =>
               \A f \in DeactFrames, s \in {0, 1} :
                   LET r == dwc_otg_hcd_qh_deactivate(hcd, bus, qh, q, s, f)
                   IN  /\ r.hcd.periodic_channels = hcd.periodic_channels
                       /\ r.hcd.periodic_usecs = hcd.periodic_usecs
                       /\ r.bus = bus

\* C18 witness: qh_deactivate at the frame the QH's new sched_frame names has
\* put a scheduled periodic QH with a QTD into periodic_sched_ready, in front
\* of a QH that is inactive.
C18_Witness ==
    /\ last.op = "qh_deactivate" /\ last.linked
    /\ IntOrIsoc(last.qh) /\ qh[last.qh].qtd_list # << >>
    /\ qh[last.qh].sched_frame = last.frame_number
    /\ hcd.periodic_sched_ready = <<last.qh>>
    /\ Len(hcd.periodic_sched_inactive) = 1

\* C19: after qh_deactivate on a control or bulk QH the QH is the last of
\* non_periodic_sched_inactive and in no other list when its qtd_list is not
\* empty, and in no list when it is empty; the call leaves the periodic
\* lists, periodic_channels, periodic_usecs and the bus counters as they are.
C19_DeactivateNonPeriodic ==
    /\ (last.op = "qh_deactivate" /\ ControlOrBulk(last.qh)) =>
           IF qh[last.qh].qtd_list # << >>
           THEN /\ TotalOccurrences(hcd, last.qh) = 1
                /\ hcd.non_periodic_sched_inactive # << >>
                /\ hcd.non_periodic_sched_inactive[
                       Len(hcd.non_periodic_sched_inactive)] = last.qh
           ELSE ~Linked(hcd, last.qh)
    /\ \A q \in Existing :
           ControlOrBulk(q) =>
               \A f \in DeactFrames, s \in {0, 1} :
                   LET r == dwc_otg_hcd_qh_deactivate(hcd, bus, qh, q, s, f)
                   IN  /\ r.hcd.periodic_channels = hcd.periodic_channels
                       /\ r.hcd.periodic_usecs = hcd.periodic_usecs
                       /\ \A l \in PeriodicLists : r.hcd[l] = hcd[l]
                       /\ r.bus = bus
                       /\ ~InSeq(r.hcd.non_periodic_sched_active, q)

\* C19 witness: a control or bulk QH that held a channel was deactivated with
\* a QTD left and is now behind the other QH in non_periodic_sched_inactive.
C19_Witness ==
    /\ last.op = "qh_deactivate" /\ last.linked
    /\ ControlOrBulk(last.qh)
    /\ Len(hcd.non_periodic_sched_inactive) = 2
    /\ hcd.non_periodic_sched_inactive[2] = last.qh
    /\ hcd.non_periodic_channels = 1
    /\ hcd.non_periodic_sched_active = << >>

\* a is before b in the list s
Precedes(s, a, b) == \E i, j \in 1 .. Len(s) : i < j /\ s[i] = a /\ s[j] = b

\* C20 (as claimed): when qh_deactivate moves periodic QH A into
\* periodic_sched_ready and then qh_deactivate moves periodic QH B there with
\* the same sched_frame, A is before B in periodic_sched_ready.
C20_ReadyTiesFifo ==
    \A A, B \in Existing :
        (A # B /\ IntOrIsoc(A) /\ IntOrIsoc(B)) =>
            \A f1, f2 \in DeactFrames :
                LET r1 == dwc_otg_hcd_qh_deactivate(hcd, bus, qh, A, 0, f1)
                    r2 == dwc_otg_hcd_qh_deactivate(r1.hcd, r1.bus, r1.qh, B, 0, f2)
                IN  (/\ InSeq(r1.hcd.periodic_sched_ready, A)
                     /\ InSeq(r2.hcd.periodic_sched_ready, A)
                     /\ InSeq(r2.hcd.periodic_sched_ready, B)
                     /\ r2.qh[A].sched_frame = r2.qh[B].sched_frame) =>
                        Precedes(r2.hcd.periodic_sched_ready, A, B)

\* frame a is before frame b in the circular order of the frame counter:
\* b is 1 to DWC_HFNUM_MAX_FRNUM \div 2 frames after a
FrameBefore(a, b) ==
    ((b - a) % (DWC_HFNUM_MAX_FRNUM + 1)) \in 1 .. (DWC_HFNUM_MAX_FRNUM \div 2)

\* the last call was qh_deactivate on a periodic QH that does no split
\* transactions
DeactivatedNonSplit ==
    /\ last.op = "qh_deactivate" /\ IntOrIsoc(last.qh)
    /\ qh[last.qh].do_split = 0

\* C13 (as claimed): after qh_deactivate on a non-split periodic QH the new
\* sched_frame is >= the frame number of the call and >= the old sched_frame.
C13_MonotonicFrame ==
    DeactivatedNonSplit =>
        /\ qh[last.qh].sched_frame >= last.frame_number
        /\ qh[last.qh].sched_frame >= last.sched_frame

\* C13 (amended): in the circular order of the frame counter, after
\* qh_deactivate on a non-split periodic QH the new sched_frame is not before
\* the frame number of the call; and it is not before the old sched_frame when
\* the interval is at most half the counter's range and the frame number of
\* the call is not before the old sched_frame.
C13_MonotonicFrameCircular ==
    DeactivatedNonSplit =>
        /\ ~FrameBefore(qh[last.qh].sched_frame, last.frame_number)
        /\ (/\ qh[last.qh].interval <= (DWC_HFNUM_MAX_FRNUM + 1) \div 2
            /\ ~FrameBefore(last.frame_number, last.sched_frame)) =>
               ~FrameBefore(qh[last.qh].sched_frame, last.sched_frame)

\* C13 witness: a QH with sched_frame DWC_HFNUM_MAX_FRNUM - 3 was deactivated
\* at frame DWC_HFNUM_MAX_FRNUM and its new sched_frame is past the
\* wrap-around, a smaller number than both.
C13_Witness ==
    /\ DeactivatedNonSplit
    /\ last.sched_frame = DWC_HFNUM_MAX_FRNUM - 3
    /\ last.frame_number = DWC_HFNUM_MAX_FRNUM
    /\ qh[last.qh].sched_frame = 0

\* C17: after qh_deactivate on a non-split periodic QH, sched_frame is the old
\* sched_frame plus the interval (a frame number: the sum wraps at the frame
\* counter's range), or the frame number of the call when that sum is not
\* after it; with interval 4, sched_frame 100, frame number 100 and a QTD left
\* sched_frame is 104 and the QH is in periodic_sched_inactive.
C17_NonSplitSchedFrame ==
    DeactivatedNonSplit =>
        LET sum == (last.sched_frame + qh[last.qh].interval) % (DWC_HFNUM_MAX_FRNUM + 1)
        IN  /\ qh[last.qh].sched_frame =
                   IF sum = last.frame_number \/ FrameBefore(sum, last.frame_number)
                   THEN last.frame_number
                   ELSE sum
            /\ (/\ last.sched_frame = 100 /\ qh[last.qh].interval = 4
                /\ last.frame_number = 100 /\ qh[last.qh].qtd_list # << >>) =>
                   /\ qh[last.qh].sched_frame = 104
                   /\ InSeq(hcd.periodic_sched_inactive, last.qh)
                   /\ TotalOccurrences(hcd, last.qh) = 1

\* C17 witness: the QH with interval 4 and sched_frame 100 was deactivated at
\* frame 100 with a QTD left.
C17_Witness ==
    /\ DeactivatedNonSplit /\ last.linked
    /\ last.sched_frame = 100 /\ last.frame_number = 100
    /\ qh[last.qh].interval = 4 /\ qh[last.qh].qtd_list # << >>
    /\ qh[last.qh].sched_frame = 104

\* the QH is linked in one of the two non-periodic lists
InNonPeriodicLists(h, q) ==
    InSeq(h.non_periodic_sched_inactive, q) \/ InSeq(h.non_periodic_sched_active, q)

\* C25: a QH of an interrupt or isochronous endpoint is in neither
\* non-periodic list, and a QH of a control or bulk endpoint is in none of the
\* three periodic lists.
C25_BucketMatchesType ==
    \A q \in Existing :
        /\ IntOrIsoc(q) => ~InNonPeriodicLists(hcd, q)
        /\ ControlOrBulk(q) => ~InPeriodicLists(hcd, q)

\* C25 witness: a periodic QH that was in no list has been put back by
\* qh_deactivate while a control or bulk QH holds a channel.
C25_Witness ==
    /\ last.op = "qh_deactivate" /\ ~last.linked
    /\ IntOrIsoc(last.qh) /\ InPeriodicLists(hcd, last.qh)
    /\ \E q \in Existing : ControlOrBulk(q) /\ InSeq(hcd.non_periodic_sched_active, q)

\* the inactive list of the kind of QH q
InactiveListOf(q) ==
    IF ControlOrBulk(q) THEN "non_periodic_sched_inactive" ELSE "periodic_sched_inactive"

\* C27: qh_add that returns 0 for a QH that is in no list appends the QH to
\* the inactive list of its kind and leaves the other four lists as they are;
\* after every qh_add or qtd_add that admitted a QH, the QH is the last of that
\* inactive list and in no other list.
C27_NewQhStartsInactive ==
    /\ \A q \in Existing :
           ~Linked(hcd, q) =>
               LET r == dwc_otg_hcd_qh_add(hcd, bus, qh, q)
               IN  r.status = 0 =>
                       /\ r.hcd[InactiveListOf(q)] = Append(hcd[InactiveListOf(q)], q)
                       /\ \A l \in Lists \ {InactiveListOf(q)} : r.hcd[l] = hcd[l]
    /\ (/\ last.op \in {"qh_add", "qtd_add"} /\ last.qh # NULL
        /\ ~last.linked /\ last.retval = 0) =>
           /\ TotalOccurrences(hcd, last.qh) = 1
           /\ hcd[InactiveListOf(last.qh)] # << >>
           /\ hcd[InactiveListOf(last.qh)][Len(hcd[InactiveListOf(last.qh)])] = last.qh

\* C27 witness: a periodic QH was admitted by qtd_add behind a QH that is
\* inactive, while the ready list holds nothing.
C27_Witness ==
    /\ last.op = "qtd_add" /\ ~last.linked /\ last.retval = 0
    /\ last.qh # NULL /\ IntOrIsoc(last.qh)
    /\ Len(hcd.periodic_sched_inactive) = 2
    /\ hcd.periodic_sched_inactive[2] = last.qh
    /\ hcd.periodic_sched_ready = << >>

\* the entry after q in the sequence s, NULL when q is the last entry of s
EntryAfter(s, q) ==
    IF \E i \in 1 .. Len(s) - 1 : s[i] = q
    THEN s[(CHOOSE i \in 1 .. Len(s) - 1 : s[i] = q) + 1]
    ELSE NULL

\* C21: non_periodic_qh_ptr is the list head or a QH that is linked in a
\* schedule list; qh_remove of the linked non-periodic QH the cursor points at
\* leaves the cursor at that QH's successor in its list (the list head after
\* the last QH), and after qh_remove or qh_deactivate of that QH the cursor
\* does not point at it any more.
C21_CursorValidity ==
    /\ hcd.non_periodic_qh_ptr # NULL => Linked(hcd, hcd.non_periodic_qh_ptr)
    /\ \A q \in Existing :
           (ControlOrBulk(q) /\ Linked(hcd, q) /\ hcd.non_periodic_qh_ptr = q) =>
               \A l \in Lists :
                   InSeq(hcd[l], q) =>
                       dwc_otg_hcd_qh_remove(hcd, bus, qh, q).hcd.non_periodic_qh_ptr
                           = EntryAfter(hcd[l], q)
    /\ (/\ last.op \in {"qh_remove", "qh_deactivate"} /\ last.linked
        /\ last.cursor = last.qh) =>
           hcd.non_periodic_qh_ptr # last.qh

\* C21 witness: qh_remove has withdrawn the QH the cursor pointed at and the
\* cursor is at the QH that followed it.
C21_Witness ==
    /\ last.op = "qh_remove" /\ last.linked /\ last.cursor = last.qh
    /\ ~Linked(hcd, last.qh)
    /\ hcd.non_periodic_qh_ptr # NULL
    /\ InSeq(hcd.non_periodic_sched_active, hcd.non_periodic_qh_ptr)

\* x with its low three bits set
LowBitsOnes(x) == (x \div 8) * 8 + 7

\* frame a is frame b or before it in the circular order of the frame counter
AtOrBefore(a, b) == a = b \/ FrameBefore(a, b)

\* the last call was a qtd_add that made a QH for a periodic endpoint
CreatedPeriodic ==
    last.op = "qtd_add" /\ last.speed # "NONE" /\ last.qh # NULL /\ IntOrIsoc(last.qh)

\* QH q made at frame_number has sched_frame frame_number + SCHEDULE_SLOP with
\* the low three bits set, and start_split_frame equal to it
AlignedAtCreation(q, frame_number) ==
    /\ q.sched_frame =
           LowBitsOnes((frame_number + SCHEDULE_SLOP) % (DWC_HFNUM_MAX_FRNUM + 1))
    /\ q.start_split_frame = q.sched_frame

\* the device is low or full speed and the port runs at high speed
SlowDeviceOnFastPort(speed, prtspd) == speed \in {"LOW", "FULL"} /\ prtspd = "HIGH"

\* C28 (as stated): a periodic QH made for a low or full speed device on a
\* high speed port has its interval multiplied by 8, the low three bits of
\* sched_frame set and start_split_frame equal to sched_frame, and a periodic
\* QH has this adjustment exactly when its do_split is set.
C28_SplitInitAdjustment ==
    CreatedPeriodic =>
        /\ SlowDeviceOnFastPort(last.speed, last.prtspd) =>
               /\ AlignedAtCreation(qh[last.qh], last.frame_number)
               /\ qh[last.qh].interval % 8 = 0
        /\ qh[last.qh].do_split # 0 <=> AlignedAtCreation(qh[last.qh], last.frame_number)

\* C28 (amended): dwc_otg_hcd_qh_init of a periodic QH multiplies the interval
\* by 8, sets the low three bits of sched_frame (frame number + 10) and makes
\* start_split_frame equal to sched_frame exactly when the device is low or
\* full speed and the port runs at high speed, whatever do_split is; otherwise
\* interval is the URB's, sched_frame is frame number + 10 and start_split_frame
\* is 0.
C28_HighSpeedPortAdjustment ==
    /\ CreatedPeriodic =>
           (SlowDeviceOnFastPort(last.speed, last.prtspd)
               <=> AlignedAtCreation(qh[last.qh], last.frame_number))
    /\ \A urb \in SplitUrbs, frame_number \in SplitCreateFrames,
          prtspd \in {"HIGH", "FULL"} :
           LET q == dwc_otg_hcd_qh_init(urb, frame_number, prtspd)
               slop == (frame_number + SCHEDULE_SLOP) % (DWC_HFNUM_MAX_FRNUM + 1)
           IN  IF SlowDeviceOnFastPort(urb.speed, prtspd)
               THEN /\ q.interval = (8 * urb.interval) % 65536
                    /\ q.sched_frame = LowBitsOnes(slop)
                    /\ q.start_split_frame = q.sched_frame
               ELSE /\ q.interval = urb.interval % 65536
                    /\ q.sched_frame = slop
                    /\ q.start_split_frame = 0

\* C28 witness: a QH made for a full speed device without split transactions
\* on a high speed port has the adjusted interval and frames.
C28_Witness ==
    /\ CreatedPeriodic
    /\ last.speed = "FULL" /\ last.prtspd = "HIGH"
    /\ qh[last.qh].do_split = 0
    /\ qh[last.qh].interval = 8
    /\ AlignedAtCreation(qh[last.qh], last.frame_number)

\* the periodic QHs that do split transactions
SplitQHs == {q \in Existing : IntOrIsoc(q) /\ qh[q].do_split # 0}

\* sched_frame of QH q after a continuing split at frame_number
ContinuingSplitFrame(q, frame_number) ==
    IF /\ AtOrBefore(frame_number, (q.start_split_frame + 1) % (DWC_HFNUM_MAX_FRNUM + 1))
       /\ ~(q.ep_type = "ISOC" /\ q.ep_is_in = 0)
    THEN (frame_number + 1) % (DWC_HFNUM_MAX_FRNUM + 1)
    ELSE frame_number

\* C29: qh_deactivate with sched_next_periodic_split set on a periodic QH that
\* does split transactions sets sched_frame to the current frame number, plus
\* one frame exactly when the current frame is at or before
\* start_split_frame + 1 and the endpoint is not isochronous OUT, and leaves
\* start_split_frame as it was (frames in the arithmetic of the frame counter).
C29_ContinuingSplit ==
    /\ \A q \in SplitQHs, frame_number \in SplitDeactFrames :
           LET r == dwc_otg_hcd_qh_deactivate(hcd, bus, qh, q, 1, frame_number)
           IN  /\ r.qh[q].sched_frame = ContinuingSplitFrame(qh[q], frame_number)
               /\ r.qh[q].start_split_frame = qh[q].start_split_frame
    /\ (last.op = "qh_deactivate" /\ last.split = 1 /\ last.qh \in SplitQHs) =>
           qh[last.qh].sched_frame = ContinuingSplitFrame(qh[last.qh], last.frame_number)

\* C29 witness: a continuing split of an interrupt endpoint was rescheduled to
\* the frame after the current one, and one of an isochronous OUT endpoint to
\* the current frame, both at most one frame after start_split_frame.
C29_Witness ==
    /\ last.op = "qh_deactivate" /\ last.split = 1 /\ last.qh \in SplitQHs
    /\ AtOrBefore(last.frame_number,
                  (qh[last.qh].start_split_frame + 1) % (DWC_HFNUM_MAX_FRNUM + 1))
    /\ \/ /\ qh[last.qh].ep_type = "INT"
          /\ qh[last.qh].sched_frame = last.frame_number + 1
       \/ /\ qh[last.qh].ep_type = "ISOC" /\ qh[last.qh].ep_is_in = 0
          /\ qh[last.qh].sched_frame = last.frame_number

\* the larger of two numbers
Max(a, b) == IF a >= b THEN a ELSE b

\* C30 (as stated): qh_deactivate with sched_next_periodic_split clear on a
\* periodic QH that does split transactions sets sched_frame to the larger of
\* old start_split_frame + interval and the current frame number, with the low
\* three bits set, makes start_split_frame equal to it, and sched_frame is not
\* smaller than the current frame number; a QH with QTDs is then in
\* periodic_sched_ready only if the current frame number has its low three
\* bits set.
C30_FreshSplit ==
    \A q \in SplitQHs, frame_number \in SplitDeactFrames :
        LET r == dwc_otg_hcd_qh_deactivate(hcd, bus, qh, q, 0, frame_number)
        IN  /\ r.qh[q].sched_frame =
                   LowBitsOnes(Max(qh[q].start_split_frame + qh[q].interval, frame_number))
            /\ r.qh[q].start_split_frame = r.qh[q].sched_frame
            /\ r.qh[q].sched_frame >= frame_number
            /\ (qh[q].qtd_list # << >> /\ InSeq(r.hcd.periodic_sched_ready, q)) =>
                   frame_number % 8 = 7

\* sched_frame of QH q after a fresh split at frame_number: old
\* start_split_frame + interval, or the current frame when that is at or
\* before it in the circular order, with the low three bits set
FreshSplitFrame(q, frame_number) ==
    LET f == (q.start_split_frame + q.interval) % (DWC_HFNUM_MAX_FRNUM + 1)
    IN  LowBitsOnes(IF AtOrBefore(f, frame_number) THEN frame_number ELSE f)

\* C30 (amended): in the arithmetic and the circular order of the frame
\* counter, the new sched_frame is old start_split_frame + interval, or the
\* current frame number when that sum is at or before it, with the low three
\* bits set; start_split_frame equals it; it is not before the current frame
\* number when the old start_split_frame has its low three bits set and
\* interval is a multiple of 8; and a QH with QTDs is in periodic_sched_ready
\* afterwards only if the current frame number has its low three bits set.
C30_FreshSplitCircular ==
    /\ \A q \in SplitQHs, frame_number \in SplitDeactFrames :
           LET r == dwc_otg_hcd_qh_deactivate(hcd, bus, qh, q, 0, frame_number)
           IN  /\ r.qh[q].sched_frame = FreshSplitFrame(qh[q], frame_number)
               /\ r.qh[q].start_split_frame = r.qh[q].sched_frame
               /\ (qh[q].start_split_frame % 8 = 7 /\ qh[q].interval % 8 = 0) =>
                      ~FrameBefore(r.qh[q].sched_frame, frame_number)
               /\ (qh[q].qtd_list # << >> /\ InSeq(r.hcd.periodic_sched_ready, q)) =>
                      frame_number % 8 = 7
    /\ (/\ last.op = "qh_deactivate" /\ last.split = 0 /\ last.qh \in SplitQHs) =>
           /\ qh[last.qh].sched_frame % 8 = 7
           /\ qh[last.qh].start_split_frame = qh[last.qh].sched_frame
           /\ InSeq(hcd.periodic_sched_ready, last.qh) => last.frame_number % 8 = 7

\* C30 witness: a fresh split of an interrupt endpoint with QTDs was
\* rescheduled across the wrap-around of the frame counter, from frame
\* DWC_HFNUM_MAX_FRNUM to frame 7, and the QH is inactive; or to the current
\* frame, and the QH is ready.
C30_Witness ==
    /\ last.op = "qh_deactivate" /\ last.split = 0 /\ last.qh \in SplitQHs
    /\ qh[last.qh].ep_type = "INT" /\ qh[last.qh].qtd_list # << >>
    /\ last.frame_number = DWC_HFNUM_MAX_FRNUM
    /\ \/ /\ qh[last.qh].sched_frame = 7
          /\ InSeq(hcd.periodic_sched_inactive, last.qh)
       \/ /\ qh[last.qh].sched_frame = DWC_HFNUM_MAX_FRNUM
          /\ InSeq(hcd.periodic_sched_ready, last.qh)

\* C26: a QH that is in a schedule list with an empty QTD list is eventually
\* in no schedule list, unless a QTD is enqueued on it first; and every step
\* that takes a periodic QH out of the schedule lists gives back its channel
\* and its microseconds.
C26_EventualRemoval ==
    /\ \A q \in QHS :
           (hcpriv[q] # NULL /\ Linked(hcd, q) /\ qh[q].qtd_list = << >>)
               ~> (~Linked(hcd, q) \/ qh[q].qtd_list # << >>)
    /\ [][\A q \in Existing :
             (IntOrIsoc(q) /\ Linked(hcd, q) /\ ~Linked(hcd', q)) =>
                 /\ hcd'.periodic_channels = hcd.periodic_channels - 1
                 /\ hcd'.periodic_usecs = (hcd.periodic_usecs + 65536 - qh[q].usecs) % 65536]_vars

\* C26 witness: qh_deactivate has found a periodic QH in a schedule list with
\* an empty QTD list and the QH is in no list now.
C26_Witness ==
    /\ last.op = "qh_deactivate" /\ last.linked
    /\ IntOrIsoc(last.qh)
    /\ qh[last.qh].qtd_list = << >>
    /\ ~Linked(hcd, last.qh)

\* context t waits for hcd->lock, which is not recursive and which t holds
\* itself: nothing can release it
Blocked(t) ==
    /\ ctx[t].stack # << >>
    /\ Top(t).pc = "lock"
    /\ lock.smp /\ lock.owner = t

\* C22 (as claimed): with hcd->lock a lock that is not recursive, no context
\* inside qh_deactivate or qtd_add ever waits for the lock while holding it,
\* so that every call can go on to release the lock and return.
C22_NoOperationBlocks == \A t \in Ctxs : ~Blocked(t)

\* context t has just taken hcd->lock for a call it was not making inside
\* another one
HoldsLockAtEntry(t) ==
    /\ Len(ctx[t].stack) = 1
    /\ Top(t).pc = "body"
    /\ lock.owner = t

\* context u is in no call, or in a call that has not taken the lock yet
NotInsideOperation(u) ==
    \/ ctx[u].stack = << >>
    \/ Len(ctx[u].stack) = 1 /\ Top(u).pc = "lock"

\* the periodic QHs linked in the periodic lists
CountedQHs == {q \in Existing : IntOrIsoc(q) /\ InPeriodicLists(hcd, q)}

\* C23 (as claimed): a context that has taken hcd->lock finds every other
\* context outside its operation, periodic_channels equal to the number of QHs
\* linked in the periodic lists and periodic_usecs equal to the sum of their
\* usecs.
C23_AtomicBucketMigration ==
    \A t \in Ctxs :
        HoldsLockAtEntry(t) =>
            /\ \A u \in Ctxs \ {t} : NotInsideOperation(u)
            /\ hcd.periodic_channels = Cardinality(CountedQHs)
            /\ hcd.periodic_usecs = ClaimedUsecs % 65536

\* context t has returned from a call of fn on QH q
Returned(t, fn, q) ==
    ctx[t].stack = << >> /\ ctx[t].ret.fn = fn /\ ctx[t].ret.qh = q

\* contexts t and u have returned from qh_remove and qh_deactivate on the
\* periodic QH q; both calls were made while q was in a schedule list with an
\* empty QTD list and before either had changed anything, and no other
\* context has made a call
CancellationRaceOver(t, u, q) ==
    /\ t # u
    /\ IntOrIsoc(q)
    /\ Returned(t, "qh_remove", q) /\ Returned(u, "qh_deactivate", q)
    /\ ctx[t].ret.snap = ctx[u].ret.snap
    /\ ctx[t].ret.snap.linked /\ ctx[t].ret.snap.drained
    /\ \A w \in Ctxs \ {t, u} : ctx[w] = IdleCtx

----------------------------------------------------------------------------
\* the number of entries of the three periodic schedule lists
PeriodicEntries ==
    Len(hcd.periodic_sched_inactive) + Len(hcd.periodic_sched_ready)
    + Len(hcd.periodic_sched_queued)

\* C34 (reservation count matches membership): in every state reachable by
\* calls of qh_add, qh_remove, qh_deactivate and qtd_add, periodic_channels is
\* the number of QHs linked in the three periodic lists.
C34_ReservationMatchesMembership == hcd.periodic_channels = PeriodicEntries

----------------------------------------------------------------------------
\* dwc_otg_hcd_qtd_add has just made the QH last.qh for the URB of QTD last.qtd
CreatedQH == last.op = "qh_create"

\* the URB for which the QTD last.qtd was made
LastUrb == urbs[last.qtd]

\* C31 (split detection at QH creation): dwc_otg_hcd_qh_init sets do_split to
\* 1 if and only if the device is low or full speed, has a transaction
\* translator hub and that hub's address is not 1, and to 0 otherwise, whatever
\* the endpoint type and the port speed are.
C31_SplitDetection ==
    CreatedQH =>
        qh[last.qh].do_split =
            IF LastUrb.speed \in {"LOW", "FULL"} /\ LastUrb.tt_hub \notin {NULL, 1}
            THEN 1 ELSE 0

\* C31 witness: a bulk or control QH made while the port runs at full speed
\* has do_split set.
C31_Witness ==
    /\ CreatedQH
    /\ ControlOrBulk(last.qh)
    /\ last.prtspd = "FULL"
    /\ qh[last.qh].do_split = 1

\* sched_frame of a QH made at frame_number: SCHEDULE_SLOP frames later on the
\* frame counter
SlopFrame(frame_number) == (frame_number + SCHEDULE_SLOP) % (DWC_HFNUM_MAX_FRNUM + 1)

\* what dwc_otg_hcd_qh_init leaves whatever the endpoint is: DATA0, no QTD, no
\* schedule list, no channel
FreshQH(q) ==
    /\ qh[q].data_toggle = DWC_OTG_HC_PID_DATA0
    /\ qh[q].qtd_list = << >>
    /\ ~Linked(hcd, q)
    /\ qh[q].channel = NULL

\* C32 (as stated): after dwc_otg_hcd_qh_init the QH has data_toggle DATA0, an
\* empty QTD list, is in no schedule list and has no channel; an interrupt or
\* isochronous QH has sched_frame = frame number + 10 on the frame counter and
\* the URB's interval; a control or bulk QH has usecs, interval and sched_frame
\* 0.
C32_CreationDefaults ==
    CreatedQH =>
        /\ FreshQH(last.qh)
        /\ IntOrIsoc(last.qh) =>
               /\ qh[last.qh].sched_frame = SlopFrame(last.frame_number)
               /\ qh[last.qh].interval = LastUrb.interval
        /\ ControlOrBulk(last.qh) =>
               /\ qh[last.qh].usecs = 0
               /\ qh[last.qh].interval = 0
               /\ qh[last.qh].sched_frame = 0

\* C32 (amended): as stated, except that the interrupt or isochronous QH of a
\* low or full speed device made while the port runs at high speed has 8 times
\* the URB's interval (modulo 2^16) and sched_frame = frame number + 10 with
\* the low three bits set.
C32_CreationDefaultsByPortSpeed ==
    CreatedQH =>
        /\ FreshQH(last.qh)
        /\ (IntOrIsoc(last.qh) /\ ~SlowDeviceOnFastPort(last.speed, last.prtspd)) =>
               /\ qh[last.qh].sched_frame = SlopFrame(last.frame_number)
               /\ qh[last.qh].interval = LastUrb.interval
        /\ (IntOrIsoc(last.qh) /\ SlowDeviceOnFastPort(last.speed, last.prtspd)) =>
               /\ qh[last.qh].sched_frame = LowBitsOnes(SlopFrame(last.frame_number))
               /\ qh[last.qh].interval = (8 * LastUrb.interval) % 65536
        /\ ControlOrBulk(last.qh) =>
               /\ qh[last.qh].usecs = 0
               /\ qh[last.qh].interval = 0
               /\ qh[last.qh].sched_frame = 0

\* C32 witness: an interrupt or isochronous QH made for a high speed device
\* three frames before the frame counter wraps has sched_frame 6.
C32_Witness ==
    /\ CreatedQH
    /\ IntOrIsoc(last.qh)
    /\ last.speed = "HIGH"
    /\ last.frame_number = DWC_HFNUM_MAX_FRNUM - 3
    /\ qh[last.qh].sched_frame = 6
    /\ qh[last.qh].interval = 1

----------------------------------------------------------------------------
\* C33 (QTD creation): dwc_otg_hcd_qtd_init stores the URB in the QTD and the
\* QTD in urb->hcpriv; the QTD of a control pipe gets data_toggle DATA1 and
\* control_phase SETUP, the QTD of any other pipe keeps the zero defaults of
\* both; complete_split and isoc_split_offset are 0, isoc_split_pos is ALL,
\* and the QTD is on the list of no QH.
C33_QtdCreation ==
    Pending =>
        /\ qtds[last.qtd].urb = last.qtd
        /\ urbs[last.qtd].hcpriv = last.qtd
        /\ LastUrb.pipetype = "CONTROL" =>
               /\ qtds[last.qtd].data_toggle = DWC_OTG_HC_PID_DATA1
               /\ qtds[last.qtd].control_phase = DWC_OTG_CONTROL_SETUP
        /\ LastUrb.pipetype # "CONTROL" =>
               /\ qtds[last.qtd].data_toggle = DWC_OTG_HC_PID_DATA0
               /\ qtds[last.qtd].control_phase = 0
        /\ qtds[last.qtd].complete_split = 0
        /\ qtds[last.qtd].isoc_split_offset = 0
        /\ qtds[last.qtd].isoc_split_pos = DWC_HCSPLIT_XACTPOS_ALL
        /\ QtdInNoList(qh, last.qtd)

\* C33 witness: the second QTD of a control endpoint has been made, with
\* DATA1, while the first is on the list of the endpoint's QH.
C33_Witness ==
    /\ Pending
    /\ last.qtd = 2
    /\ LastUrb.pipetype = "CONTROL"
    /\ qtds[2].data_toggle = DWC_OTG_HC_PID_DATA1
    /\ \E q \in QHS : qh[q].qtd_list = <<1>>

----------------------------------------------------------------------------
\* the last call went into schedule_periodic with an interrupt or isochronous
\* QH: qtd_add or qh_add of a QH that was in no schedule list
ReachedSchedulePeriodic ==
    /\ last.op \in {"qtd_add", "qh_add"}
    /\ last.qh # NULL
    /\ IntOrIsoc(last.qh)
    /\ ~last.linked

\* the last call went into deschedule_periodic: qh_remove of an interrupt or
\* isochronous QH that was in a schedule list
ReachedDeschedulePeriodic ==
    /\ last.op = "qh_remove"
    /\ IntOrIsoc(last.qh)
    /\ last.linked

\* C39 (admission never divides by zero): every periodic QH that reaches
\* schedule_periodic or deschedule_periodic has an interval of at least 1, so
\* that usecs / interval is defined.
C39_AdmissionNeverDividesByZero ==
    (ReachedSchedulePeriodic \/ ReachedDeschedulePeriodic) => qh[last.qh].interval >= 1

----------------------------------------------------------------------------
\* the fields of a QH that belong to its transfers and its place in time
TransferFields(q) ==
    <<q.qtd_list, q.sched_frame, q.start_split_frame, q.interval, q.usecs, q.data_toggle>>

\* C37 (removal does not touch transfers): dwc_otg_hcd_qh_remove leaves the
\* QH's QTD list, sched_frame, start_split_frame, interval, usecs and
\* data_toggle as they are, leaves every other QH in its list and the other
\* QHs of each list in their order, and frees nothing.
C37_RemovalKeepsTransfers ==
    [][last'.op = "qh_remove" =>
          /\ TransferFields(qh'[last'.qh]) = TransferFields(qh[last'.qh])
          /\ \A l \in Lists : hcd'[l] = SeqRemove(hcd[l], last'.qh)
          /\ \A q \in QHS \ {last'.qh} : qh'[q] = qh[q]
          /\ qtds' = qtds
          /\ kfreed' = kfreed]_vars

\* C37 witness: qh_remove has taken a periodic QH with a QTD and the saved
\* toggle DATA1 out of a schedule list in which another QH stays.
C37_Witness ==
    /\ last.op = "qh_remove"
    /\ last.linked
    /\ IntOrIsoc(last.qh)
    /\ qh[last.qh].qtd_list # << >>
    /\ qh[last.qh].data_toggle = DWC_OTG_HC_PID_DATA1
    /\ qh[last.qh].sched_frame # 0
    /\ \E q \in QHS \ {last.qh} : InPeriodicLists(hcd, q)

----------------------------------------------------------------------------
\* QH q is registered as its endpoint's QH, is in no schedule list and holds
\* no QTD
IdleRegisteredQH(h, Q, priv, q) ==
    /\ priv[q] = q
    /\ ~Linked(h, q)
    /\ Q[q].qtd_list = << >>

\* C35 (failed first enqueue leaves a reusable QH): when qtd_add makes the QH
\* of an endpoint and its admission fails, the QH stays in ep->hcpriv, is in no
\* schedule list, holds no QTD and no reservation (the schedule and the
\* counters are as before the call); a later qtd_add for the endpoint makes no
\* other QH, calls qh_add for this one and links the QTD when that returns 0.
C35_FailedFirstEnqueue ==
    [][last'.op = "qtd_add" =>
          /\ last'.retval # 0 =>
                 /\ last'.qh # NULL
                 /\ hcpriv'[last'.qh] = last'.qh
                 /\ hcpriv[last'.qh] = NULL =>
                        /\ IdleRegisteredQH(hcd', qh', hcpriv', last'.qh)
                        /\ hcd' = hcd
                        /\ bus' = bus
          /\ (last'.qh # NULL /\ IdleRegisteredQH(hcd, qh, hcpriv, last'.qh)) =>
                 /\ hcpriv' = hcpriv
                 /\ [qh'[last'.qh] EXCEPT !.qtd_list = << >>] = qh[last'.qh]
                 /\ last'.retval = dwc_otg_hcd_qh_add(hcd, bus, qh, last'.qh).status
                 /\ hcd' = dwc_otg_hcd_qh_add(hcd, bus, qh, last'.qh).hcd
                 /\ qh'[last'.qh].qtd_list = IF last'.retval = 0 THEN <<nqtd'>> ELSE << >>]_vars

\* C35 witness: the second qtd_add for an endpoint found the QH that the first
\* one made and could not admit, and its admission failed again.
C35_Witness ==
    /\ last.op = "qtd_add"
    /\ last.speed = "NONE"
    /\ last.qh # NULL
    /\ last.retval = -ENOSPC
    /\ ~last.linked
    /\ nqtd = 2
    /\ QtdInNoList(qh, 1)
    /\ IdleRegisteredQH(hcd, qh, hcpriv, last.qh)
    /\ check_max_xfer_size(qh[last.qh]) # 0

----------------------------------------------------------------------------
\* C36 (every QH scheduled by qtd_add has work): a qtd_add that links a QH in
\* a schedule list leaves at least one QTD on the QH's list, and a qtd_add that
\* appends a QTD appends it, at the tail, to a QH that is linked in a schedule
\* list.
C36_ScheduledWithWork ==
    [][(last'.op = "qtd_add" /\ last'.qh # NULL) =>
          /\ (~Linked(hcd, last'.qh) /\ Linked(hcd', last'.qh)) =>
                 qh'[last'.qh].qtd_list # << >>
          /\ (qh'[last'.qh].qtd_list # qh[last'.qh].qtd_list) =>
                 /\ Linked(hcd', last'.qh)
                 /\ \E t \in QTDS :
                        qh'[last'.qh].qtd_list = Append(qh[last'.qh].qtd_list, t)]_vars

----------------------------------------------------------------------------
\* context t is at pc of dwc_otg_hcd_qh_free
InFree(t, pc) ==
    /\ ctx[t].stack # << >>
    /\ Top(t).fn = "qh_free" /\ Top(t).pc = pc

\* the entries of kfreed for the QTDs of list and for QH q, in the order of
\* the calls
FreedOf(list, q) ==
    LET Mine(e) == (e.kind = "qtd" /\ InSeq(list, e.id)) \/ e = FreedQH(q)
    IN  SelectSeq(kfreed, Mine)

\* list as entries of kfreed, followed by the entry of QH q
DrainOf(list, q) ==
    Append([i \in 1 .. Len(list) |-> FreedQtd(list[i])], FreedQH(q))

\* C38 (qh_free drains the QTD list): the loop of dwc_otg_hcd_qh_free ends;
\* each iteration runs under hcd->lock, unlinks the first entry of the
\* qtd_list and frees it; nothing is freed twice; the qtd_list is empty when
\* the QH is freed; a call that has returned has freed the QTDs the QH held,
\* head to tail, and then the QH; no step of qh_free changes a schedule list,
\* a counter of the HCD or the bandwidth of the bus, so a QH that was linked
\* when it was freed is still linked.
C38_QhFreeDrains ==
    /\ \A t \in Ctxs : (lock.owner = t /\ InFree(t, "body")) ~> InFree(t, "kfree")
    /\ [](\A i, j \in 1 .. Len(kfreed) : kfreed[i] = kfreed[j] => i = j)
    /\ [](\A t \in Ctxs : ctx[t].ret.fn = "qh_free" =>
              /\ FreedOf(ctx[t].ret.snap.qtd_list, ctx[t].ret.qh)
                     = DrainOf(ctx[t].ret.snap.qtd_list, ctx[t].ret.qh)
              /\ qh[ctx[t].ret.qh].qtd_list = << >>
              /\ Linked(hcd, ctx[t].ret.qh) = ctx[t].ret.snap.linked)
    /\ [][/\ (kfreed' # kfreed \/ \E t \in Ctxs : InFree(t, "body") /\ ctx'[t] # ctx[t]) =>
                 /\ hcd' = hcd
                 /\ bus' = bus
                 /\ hcpriv' = hcpriv
          /\ kfreed' # kfreed =>
                 \E t \in Ctxs :
                     \/ /\ lock.owner = t /\ InFree(t, "body")
                        /\ qh[Top(t).qh].qtd_list # << >>
                        /\ kfreed' = Append(kfreed, FreedQtd(Head(qh[Top(t).qh].qtd_list)))
                        /\ qh' = [qh EXCEPT ![Top(t).qh].qtd_list = Tail(@)]
                     \/ /\ InFree(t, "kfree")
                        /\ qh[Top(t).qh].qtd_list = << >>
                        /\ kfreed' = Append(kfreed, FreedQH(Top(t).qh))
                        /\ qh' = qh]_vars

\* C38 witness: qh_free has returned for a QH that held two QTDs and was
\* linked in a schedule list; both QTDs and the QH are freed and the QH is
\* still in the list.
C38_Witness ==
    \E t \in Ctxs :
        /\ ctx[t].ret.fn = "qh_free"
        /\ Len(ctx[t].ret.snap.qtd_list) = 2
        /\ ctx[t].ret.snap.linked
        /\ Linked(hcd, ctx[t].ret.qh)
        /\ kfreed = DrainOf(ctx[t].ret.snap.qtd_list, ctx[t].ret.qh)

====
